---- MODULE Spec2Model ----
(***************************************************************************)
(* Model of the schedule parser (package schedule_parser): the calendar    *)
(* service, the schedule builder, the reconciliation engine with its       *)
(* transactional storage, change-detection equality of Lesson, and the     *)
(* batch orchestrator with its counting semaphore.                         *)
(*                                                                         *)
(* Text is transliterated to ASCII one character for one character         *)
(* (the day labels "pnd", "vtr", ... stand for the Cyrillic three-letter   *)
(* labels of DAY_MAPPING).  Python's None is None for optional strings and *)
(* NoneInt for optional integers.  Dates are proleptic Gregorian ordinals  *)
(* (date.toordinal()).                                                     *)
(***************************************************************************)
EXTENDS Integers, Sequences, FiniteSets, TLC

\* ------------------------------------------------------------------ bounds
\* number of parse_group runs of the reconciliation specification
MaxRuns == 2
\* number of group ids handed to parse_groups_batch
NumGroups == 3
\* largest value of config.max_concurrent_parses tried
MaxConcurrent == 2
\* number of parse_group calls of the concurrent-pipelines specification
MaxPasses == 3
PoolSize == 2
MaxRetriesBound == 3
MaxBodyRows == 2
\* the pipelines that run parse_group for the same group id at once
Pipelines == {1, 2}

\* ------------------------------------------------------------ Python values
None == "None"
NoneInt == 0

Min(a, b) == IF a < b THEN a ELSE b

\* ----------------------------------------------------------------- calendar
IsLeap(y) == (y % 4 = 0) /\ ((y % 100 # 0) \/ (y % 400 = 0))

DaysBeforeYear(y) ==
    (y - 1) * 365 + ((y - 1) \div 4) - ((y - 1) \div 100) + ((y - 1) \div 400)

DaysInMonth(y, m) ==
    IF m = 2 THEN (IF IsLeap(y) THEN 29 ELSE 28)
    ELSE IF m \in {4, 6, 9, 11} THEN 30 ELSE 31

RECURSIVE DaysBeforeMonth(_, _)
DaysBeforeMonth(y, m) ==
    IF m = 1 THEN 0 ELSE DaysBeforeMonth(y, m - 1) + DaysInMonth(y, m - 1)

\* date(y, m, d).toordinal()
Ordinal(y, m, d) == DaysBeforeYear(y) + DaysBeforeMonth(y, m) + d

Years == 2019..2027

\* date.year and date.month of an ordinal
YearOf(o) == CHOOSE y \in Years : DaysBeforeYear(y) < o /\ o <= DaysBeforeYear(y + 1)
MonthOf(o) ==
    CHOOSE m \in 1..12 :
        /\ Ordinal(YearOf(o), m, 1) <= o
        /\ o < Ordinal(YearOf(o), m, 1) + DaysInMonth(YearOf(o), m)

\* date.weekday(): 0 = Monday ... 6 = Sunday
weekday(o) == (o + 6) % 7

get_week_type_for_date(target_date) ==
    LET year == IF MonthOf(target_date) < 9
                THEN YearOf(target_date) - 1 ELSE YearOf(target_date)
        academic_year_start == Ordinal(year, 9, 1)
        first_week_monday == academic_year_start - weekday(academic_year_start)
        days_diff == target_date - first_week_monday
        week_number == (days_diff \div 7) + 1
    IN  IF target_date < academic_year_start THEN "odd"
        ELSE IF week_number % 2 = 0 THEN "even" ELSE "odd"

get_monday_of_week(target_date, wt) ==
    LET monday == target_date - weekday(target_date)
    IN  IF wt # None /\ get_week_type_for_date(monday) # wt
        THEN monday + 7 ELSE monday

\* the values date.today() takes in the runs: Sunday 2025-09-07 (week 1,
\* odd), Monday 2025-09-08 (week 2, even) and Tuesday 2025-09-23 (week 4,
\* even)
TodayDates == {Ordinal(2025, 9, 7), Ordinal(2025, 9, 8), Ordinal(2025, 9, 23)}

\* --------------------------------------------------------------------- text
\* The texts of the site are Cyrillic; the model writes every Cyrillic letter
\* as the Latin letter of the same case, so that a character class of the
\* source (capital letters, small letters, \d, \s) keeps its members. "~" stands for the
\* no-break space U+00A0 and "^" for the zero-width space U+200B.
Upper == "ABCDEFGHIJKLMNOPQRSTUVWXYZ"
Lower == "abcdefghijklmnopqrstuvwxyz"
Digits == "0123456789"

Char(s, i) == IF i \in 1..Len(s) THEN SubSeq(s, i, i) ELSE ""

\* s[i-1:j], the characters at positions i..j that the text has
Slice(s, i, j) == SubSeq(s, i, IF j < Len(s) THEN j ELSE Len(s))
CharsOf(s) == {Char(s, i) : i \in 1..Len(s)}
UpperChars == CharsOf(Upper)
LowerChars == CharsOf(Lower)
DigitChars == CharsOf(Digits)

\* a capital letter
IsUpper(c) == c \in UpperChars
\* a letter
IsLetter(c) == c \in UpperChars \cup LowerChars
\* \d
IsDigit(c) == c \in DigitChars
\* \s, and the characters str.strip() removes
IsSpace(c) == c \in {" ", "\t", "~"}

\* str.lower() on one character
lowerChar(c) ==
    IF IsUpper(c)
    THEN Char(Lower, CHOOSE i \in 1..Len(Upper) : Char(Upper, i) = c)
    ELSE c

\* ''.join(parts[lo-1:hi]), the list halved at each step
RECURSIVE JoinRange(_, _, _)
JoinRange(parts, lo, hi) ==
    IF lo > hi THEN ""
    ELSE IF lo = hi THEN parts[lo]
    ELSE JoinRange(parts, lo, (lo + hi) \div 2)
         \o JoinRange(parts, (lo + hi) \div 2 + 1, hi)

\* ''.join(parts)
Concat(parts) == JoinRange(parts, 1, Len(parts))

\* str.lower()
lower(s) == Concat([i \in 1..Len(s) |-> lowerChar(Char(s, i))])

\* the character classes of the patterns: \s, [A-Z], [\d letters -],
\* letters, [-\s]
InClass(class, c) ==
    CASE class = "space" -> IsSpace(c)
      [] class = "upper" -> IsUpper(c)
      [] class = "code" -> IsDigit(c) \/ IsLetter(c) \/ c = "-"
      [] class = "letter" -> IsLetter(c)
      [] class = "dashspace" -> IsSpace(c) \/ c = "-"

\* min(S)
Least(S) == CHOOSE j \in S : \A m \in S : j <= m

\* the position after the run of characters of the class that begins at
\* position i (i itself when the run is empty)
RunEnd(class, s, i) ==
    IF i > Len(s) THEN i
    ELSE Least({j \in i..Len(s) : ~InClass(class, Char(s, j))} \cup {Len(s) + 1})

\* the position after the run of whitespace that begins at position i
SkipSpaces(s, i) == RunEnd("space", s, i)

\* text[i:] in the positions of the model (first position 1)
From(s, i) == SubSeq(s, i, Len(s))

lstrip(s) == From(s, SkipSpaces(s, 1))

rstrip(s) ==
    LET kept == {i \in 1..Len(s) : ~IsSpace(Char(s, i))}
    IN  IF kept = {} THEN ""
        ELSE SubSeq(s, 1, CHOOSE i \in kept : \A m \in kept : m <= i)

\* str.strip()
strip(s) == rstrip(lstrip(s))

\* str.startswith
startswith(s, prefix) == Len(s) >= Len(prefix) /\ SubSeq(s, 1, Len(prefix)) = prefix

\* text.replace('\xa0', ' ').replace('\u200b', '')
replace_invisible(s) ==
    Concat([i \in 1..Len(s) |->
                IF Char(s, i) = "~" THEN " "
                ELSE IF Char(s, i) = "^" THEN "" ELSE Char(s, i)])

\* LESSON_TYPE_PREFIXES, in the order of the dict
LESSON_TYPE_PREFIXES ==
    << <<"lek.", "Lekcia">>, <<"pr.", "Praktika">>, <<"lab.", "Laboratornaa">>,
       <<"sem.", "Seminar">>, <<"kons.", "Konsultacia">> >>

\* the element of a set of one element; {e(x) : x \in {v}} is e with x
\* naming the value of v, computed once and before e
TheOne(S) == CHOOSE x \in S : TRUE

\* extract_lesson_type: (lesson type, rest of the text)
extract_lesson_type(text) ==
    LET Typed(t, hits) ==
            IF hits = {} THEN <<None, t>>
            ELSE <<LESSON_TYPE_PREFIXES[Least(hits)][2],
                   strip(From(t, Len(LESSON_TYPE_PREFIXES[Least(hits)][1]) + 1))>>
        Stripped(t) ==
            Typed(t, {k \in 1..Len(LESSON_TYPE_PREFIXES) :
                        startswith(lower(t), LESSON_TYPE_PREFIXES[k][1])})
    IN  Stripped(strip(text))

\* the position after a match of (\d)\s*p/g that begins at position j, or 0
SubgroupEnd(s, j) ==
    LET At(k) == IF lower(Slice(s, k, k + 2)) = "p/g" THEN k + 3 ELSE 0
    IN  IF j <= Len(s) /\ IsDigit(Char(s, j)) THEN At(SkipSpaces(s, j + 1)) ELSE 0

\* the first position of the run of [-\s] that ends right before position j
DashRunStart(s, j) ==
    CHOOSE p \in 1..j :
        /\ p = 1 \/ ~InClass("dashspace", Char(s, p - 1))
        /\ \A m \in p..(j - 1) : InClass("dashspace", Char(s, m))

\* int(match.group(1))
DigitValue(c) == (CHOOSE i \in 1..Len(Digits) : Char(Digits, i) = c) - 1

\* extract_subgroup took any digit as the subgroup
extract_subgroupAnyDigit(text) ==
    LET At(p, subgroup_num) ==
            <<subgroup_num,
              strip(SubSeq(text, 1, DashRunStart(text, p) - 1)
                    \o From(text, SubgroupEnd(text, p)))>>
        First(p) == At(p, DigitValue(Char(text, p)))
        Found(found) == IF found = {} THEN <<NoneInt, text>> ELSE First(Least(found))
    IN  Found({j \in 1..Len(text) : SubgroupEnd(text, j) # 0})

\* extract_subgroup: re.search(r'[-\s]*(\d)\s*p/g', text, re.IGNORECASE)
extract_subgroup(text) ==
    LET At(p, subgroup_num) ==
            IF subgroup_num \in {1, 2}
            THEN <<subgroup_num,
                   strip(SubSeq(text, 1, DashRunStart(text, p) - 1)
                         \o From(text, SubgroupEnd(text, p)))>>
            ELSE <<NoneInt, text>>
        First(p) == At(p, DigitValue(Char(text, p)))
        Found(found) == IF found = {} THEN <<NoneInt, text>> ELSE First(Least(found))
    IN  Found({j \in 1..Len(text) : SubgroupEnd(text, j) # 0})

\* DAY_MAPPING.get(key)
DAY_MAPPING(key) ==
    CASE key = "pnd" -> 1
      [] key = "vtr" -> 2
      [] key = "srd" -> 3
      [] key = "ctv" -> 4
      [] key = "ptn" -> 5
      [] key = "sbt" -> 6
      [] key = "vsk" -> 7
      [] OTHER -> NoneInt

\* the bell schedule had a seventh lesson
LESSON_TIMESSeven(lesson_number) ==
    CASE lesson_number = 1 -> << <<9, 0>>, <<10, 35>> >>
      [] lesson_number = 2 -> << <<10, 45>>, <<12, 20>> >>
      [] lesson_number = 3 -> << <<13, 0>>, <<14, 35>> >>
      [] lesson_number = 4 -> << <<14, 45>>, <<16, 20>> >>
      [] lesson_number = 5 -> << <<16, 25>>, <<18, 0>> >>
      [] lesson_number = 6 -> << <<18, 5>>, <<19, 40>> >>
      [] lesson_number = 7 -> << <<19, 45>>, <<21, 20>> >>
      [] OTHER -> << <<>>, <<>> >>

\* LESSON_TIMES.get(lesson_number, (None, None)), times as <<hour, minute>>
LESSON_TIMES(lesson_number) ==
    CASE lesson_number = 1 -> << <<9, 0>>, <<10, 35>> >>
      [] lesson_number = 2 -> << <<10, 45>>, <<12, 20>> >>
      [] lesson_number = 3 -> << <<13, 0>>, <<14, 35>> >>
      [] lesson_number = 4 -> << <<14, 45>>, <<16, 20>> >>
      [] lesson_number = 5 -> << <<16, 25>>, <<18, 0>> >>
      [] lesson_number = 6 -> << <<18, 5>>, <<19, 40>> >>
      [] OTHER -> << <<>>, <<>> >>

\* "; ".join(items) if items else None
RECURSIVE join(_)
join(items) ==
    IF items = <<>> THEN None
    ELSE IF Len(items) = 1 THEN items[1]
    ELSE items[1] \o "; " \o join(Tail(items))

\* ------------------------------------------------------------- cell parser
LessonInfo(name, lesson_type, teachers, cabinets, subgroup) ==
    [name |-> name, lesson_type |-> lesson_type, teachers |-> teachers,
     cabinets |-> cabinets, subgroup |-> subgroup, comment |-> None]

\* the position after a match of \s+(word)\s* that begins at position i, or
\* 0; words lists the alternatives the pattern can take for the word, the
\* one it tries first before the others, and the word is matched without
\* regard to case
SpacedWordEnd(s, i, words) ==
    LET Hit(k, hits) ==
            IF k > i /\ hits # {}
            THEN SkipSpaces(s, k + Len(words[Least(hits)])) ELSE 0
        At(k) == Hit(k, {n \in 1..Len(words) :
                            lower(Slice(s, k, k + Len(words[n]) - 1)) = words[n]})
    IN  At(SkipSpaces(s, i))

\* the position after the first ")" at or after position i, or 0
CloseParen(s, i) ==
    LET closing == {j \in i..Len(s) : Char(s, j) = ")"}
    IN  IF closing = {} THEN 0
        ELSE (CHOOSE j \in closing : \A m \in closing : j <= m) + 1

\* the position after the run of capital letters that begins at position i
UpperRunEnd(s, i) == RunEnd("upper", s, i)

\* the position after the run of [\d letters -] that begins at position i
CodeRunEnd(s, i) == RunEnd("code", s, i)

\* the position after the run of letters that begins at position i
LetterRunEnd(s, i) == RunEnd("letter", s, i)

\* the capital at position i, or FALSE past the end of the text
UpperAt(s, i) == i <= Len(s) /\ IsUpper(Char(s, i))
DotAt(s, i) == i <= Len(s) /\ Char(s, i) = "."

\* the position after a match of [A-Z]{1,2}\.?[A-Z]\.? that begins at
\* position c, or 0: two letters before one, a period before none
InitialsEnd(s, c) ==
    LET Period(e) == IF e # 0 /\ DotAt(s, e) THEN e + 1 ELSE e
    IN  Period(IF UpperAt(s, c) /\ UpperAt(s, c + 1) /\ DotAt(s, c + 2) /\ UpperAt(s, c + 3)
               THEN c + 4
               ELSE IF UpperAt(s, c) /\ UpperAt(s, c + 1) /\ UpperAt(s, c + 2)
               THEN c + 3
               ELSE IF UpperAt(s, c) /\ DotAt(s, c + 1) /\ UpperAt(s, c + 2)
               THEN c + 3
               ELSE IF UpperAt(s, c) /\ UpperAt(s, c + 1)
               THEN c + 2
               ELSE 0)

\* teacher_pattern: SURNAME or SURNAME-SURNAME in capitals, whitespace,
\* initials; the position after a match that begins at position i, or 0
TeacherEnd(s, i) ==
    LET Initials(b, c) == IF c > b THEN InitialsEnd(s, c) ELSE 0
        Surname(b) == Initials(b, SkipSpaces(s, b))
        Second(a, a2) ==
            Surname(IF a <= Len(s) /\ Char(s, a) = "-" /\ a2 > a + 1 THEN a2 ELSE a)
        First(a) == IF a > i THEN Second(a, UpperRunEnd(s, a + 1)) ELSE 0
    IN  First(UpperRunEnd(s, i))

\* cabinet_pattern, without regard to case: the marker "a.", the code, and
\* a comment stuck to it after "/"; the alternatives of the comment that
\* begin with a letter never match, the code has taken the letters
CabinetEnd(s, i) ==
    LET Comment(r, q) ==
            IF r <= Len(s) /\ Char(s, r) = "/" /\ q > r + 1 THEN q ELSE r
        Code(r) == IF r > i + 2 THEN Comment(r, LetterRunEnd(s, r + 1)) ELSE 0
    IN  IF i + 1 <= Len(s) /\ lower(Char(s, i)) = "a" /\ Char(s, i + 1) = "."
        THEN Code(CodeRunEnd(s, i + 2)) ELSE 0

\* r'\s*-\s*'
DashEnd(s, i) ==
    LET At(k) == IF k <= Len(s) /\ Char(s, k) = "-" THEN SkipSpaces(s, k + 1) ELSE 0
    IN  At(SkipSpaces(s, i))

\* the words of the patterns of comment_patterns that name a word
CommentWords(pattern) ==
    CASE pattern = "i/d" -> <<"i/dekol", "i/d">>
      [] pattern = "ebz" -> <<"ebz">>
      [] pattern = "ekol" -> <<"ekol">>
      [] pattern = "tmiok" -> <<"tmiok">>

\* r'\s+'
SpacesEnd(s, i) ==
    LET At(k) == IF k > i THEN k ELSE 0
    IN  At(SkipSpaces(s, i))

\* the position after a match of the pattern that begins at position i, or 0
MatchEnd(pattern, s, i) ==
    CASE pattern \in {"i/d", "ebz", "ekol", "tmiok"} ->
            SpacedWordEnd(s, i, CommentWords(pattern))
      [] pattern = "parens" -> IF Char(s, i) = "(" THEN CloseParen(s, i + 1) ELSE 0
      [] pattern = "teacher" -> TeacherEnd(s, i)
      [] pattern = "cabinet" -> CabinetEnd(s, i)
      [] pattern = "dash" -> DashEnd(s, i)
      [] pattern = "spaces" -> SpacesEnd(s, i)

\* re.search(pattern, s, pos=i-1): the first match at or after position i
\* as <<first position, position after the last>>, or <<0, 0>>
NextMatch(pattern, s, i) ==
    LET First(found) ==
            IF found = {} THEN <<0, 0>>
            ELSE CHOOSE m \in found : \A n \in found : m[1] <= n[1]
    IN  First({m \in {<<j, MatchEnd(pattern, s, j)>> : j \in i..Len(s)} : m[2] # 0})

\* list(re.finditer(pattern, s)): the matches from position i on, each as
\* <<first position, position after the last>>
RECURSIVE finditer(_, _, _)
finditer(pattern, s, i) ==
    LET Matches(m) == IF m[2] = 0 THEN <<>> ELSE <<m>> \o finditer(pattern, s, m[2])
    IN  Matches(NextMatch(pattern, s, i))

\* the text with every match replaced by one space
RECURSIVE CutMatches(_, _, _)
CutMatches(s, matches, i) ==
    IF matches = <<>> THEN From(s, i)
    ELSE SubSeq(s, i, matches[1][1] - 1) \o " "
         \o CutMatches(s, Tail(matches), matches[1][2])

blank(pattern, s) ==
    IF s = "" THEN s ELSE CutMatches(s, finditer(pattern, s, 1), 1)

\* re.sub(r'\s+', ' ', text)
collapse(s) == blank("spaces", s)

normalize_text(text) ==
    IF text = "" THEN "" ELSE strip(collapse(replace_invisible(text)))

\* for pattern in patterns: the text with the matches of each pattern in
\* turn replaced by one space
RECURSIVE BlankAll(_, _)
BlankAll(patterns, s) ==
    IF patterns = <<>> THEN s
    ELSE BlankAll(Tail(patterns), blank(Head(patterns), s))

\* comment_patterns of extract_comment, in the order of the list
comment_patterns == <<"i/d", "ebz", "ekol", "tmiok", "parens">>

\* extract_comment: the text without the comments that stand alone
extract_comment(text) == strip(BlankAll(comment_patterns, text))

\* initials.replace('.', '')
RECURSIVE remove_dots(_)
remove_dots(s) ==
    IF s = "" THEN ""
    ELSE (IF Head(s) = "." THEN "" ELSE Head(s)) \o remove_dots(Tail(s))

\* '.'.join(initials_clean) + '.'
RECURSIVE dot_each(_)
dot_each(s) == IF s = "" THEN "" ELSE Head(s) \o "." \o dot_each(Tail(s))

\* re.sub(r'([A-Z])(?=[A-Z])', r'\1.', initials_clean)
RECURSIVE dot_between(_)
dot_between(s) ==
    IF s = "" THEN ""
    ELSE Head(s)
         \o (IF IsUpper(Head(s)) /\ UpperAt(s, 2) THEN "." ELSE "")
         \o dot_between(Tail(s))

\* the position of the first whitespace of the text at or after i, or 0
FirstSpace(s, i) ==
    LET spaces == {j \in i..Len(s) : IsSpace(Char(s, j))}
    IN  IF spaces = {} THEN 0 ELSE CHOOSE j \in spaces : \A m \in spaces : j <= m

normalize_teacher_name(name) ==
    LET Normalized(surname, initials_clean, initials_normalized) ==
            IF Len(initials_clean) \in 2..3
               /\ \A k \in 1..Len(initials_clean) : IsUpper(Char(initials_clean, k))
            THEN surname \o " " \o dot_each(initials_clean)
            ELSE IF initials_normalized # ""
                    /\ Char(initials_normalized, Len(initials_normalized)) = "."
            THEN surname \o " " \o initials_normalized
            ELSE surname \o " " \o initials_normalized \o "."
        Clean(surname, initials_clean) ==
            Normalized(surname, initials_clean, dot_between(initials_clean))
        Parts(sp, surname, initials) ==
            IF sp = 0 \/ initials = "" THEN name
            ELSE Clean(surname, remove_dots(initials))
        Split(body, sp) ==
            Parts(sp, SubSeq(body, 1, sp - 1), From(body, SkipSpaces(body, sp)))
        Body(body) == Split(body, FirstSpace(body, 1))
    IN  IF name = "" THEN name ELSE Body(lstrip(name))

\* the matched texts of a list of matches
\* the matches were listed last first
RECURSIVE MatchTextsReversed(_, _)
MatchTextsReversed(s, matches) ==
    IF matches = <<>> THEN <<>>
    ELSE MatchTextsReversed(s, Tail(matches)) \o <<SubSeq(s, matches[1][1], matches[1][2] - 1)>>

RECURSIVE MatchTexts(_, _)
MatchTexts(s, matches) ==
    IF matches = <<>> THEN <<>>
    ELSE <<SubSeq(s, matches[1][1], matches[1][2] - 1)>> \o MatchTexts(s, Tail(matches))

RECURSIVE TeacherNames(_)
TeacherNames(texts) ==
    IF texts = <<>> THEN <<>>
    ELSE <<normalize_teacher_name(strip(texts[1]))>> \o TeacherNames(Tail(texts))

\* extract_teachers_and_cabinets: (teachers, cabinets, rest of the text)
extract_teachers_and_cabinets(text) ==
    LET Rest(teachers, without_teachers, cabinet_matches) ==
            << teachers,
               MatchTexts(without_teachers, cabinet_matches),
               strip(collapse(blank("dash",
                        CutMatches(without_teachers, cabinet_matches, 1)))) >>
        Cabinets(teachers, without_teachers) ==
            Rest(teachers, without_teachers, finditer("cabinet", without_teachers, 1))
        Teachers(text_without_comment, teacher_matches) ==
            Cabinets(TeacherNames(MatchTexts(text_without_comment, teacher_matches)),
                     CutMatches(text_without_comment, teacher_matches, 1))
        Working(text_without_comment) ==
            Teachers(text_without_comment, finditer("teacher", text_without_comment, 1))
    IN  Working(extract_comment(text))

\* [A-Z]{1,3}\.?(?:[A-Z]\.?)? matches the whole of x
IsInitials(x) ==
    \E n \in 1..3 :
        /\ n <= Len(x)
        /\ \A k \in 1..n : IsUpper(Char(x, k))
        /\ \/ From(x, n + 1) \in {"", "."}
           \/ /\ UpperAt(x, n + 1) /\ From(x, n + 2) \in {"", "."}
           \/ /\ DotAt(x, n + 1) /\ UpperAt(x, n + 2) /\ From(x, n + 3) \in {"", "."}

\* the tail of the text from position p on is what the pattern wants at the
\* end of the text
IsTail(pattern, s, p) ==
    CASE pattern = "word" -> lower(From(s, p)) \in {"ebz", "ekol", "tmiok"}
      [] pattern = "dot" -> From(s, p) = "."
      [] pattern = "initials" -> IsInitials(From(s, p))
      [] pattern = "slash" ->
            /\ Char(s, p) = "/" /\ p < Len(s)
            /\ LetterRunEnd(s, p + 1) = Len(s) + 1
      [] pattern = "i/d" -> lower(From(s, p)) \in {"i/d", "i/dekol"}

\* re.sub(pattern + '$', '', name); the patterns "word", "dot" and "initials"
\* begin with \s+
cut_tail(pattern, s) ==
    LET spaced == pattern \in {"word", "dot", "initials"}
        Cut(first) ==
            IF spaced THEN rstrip(SubSeq(s, 1, first - 1)) ELSE SubSeq(s, 1, first - 1)
        Tails(tails) == IF tails = {} THEN s ELSE Cut(Least(tails))
    IN  Tails({p \in 1..Len(s) :
                /\ IsTail(pattern, s, p)
                /\ spaced => (p > 1 /\ IsSpace(Char(s, p - 1)))})

\* the patterns clean_discipline_name strips from the end of the name, in
\* the order of its re.sub calls
tail_patterns == <<"word", "dot", "initials", "slash", "i/d">>

RECURSIVE CutTails(_, _)
CutTails(patterns, s) ==
    IF patterns = <<>> THEN s
    ELSE CutTails(Tail(patterns), cut_tail(Head(patterns), s))

clean_discipline_name(name) ==
    IF name = "" THEN name ELSE strip(collapse(CutTails(tail_patterns, name)))

\* parse_lesson_info kept the empty name
parse_lesson_infoEmptyName(raw_text) ==
    LET Info(typed, sub, tc, cleaned) ==
            LessonInfo(cleaned, typed[1], tc[1], tc[2], sub[1])
        Named(typed, sub, tc) ==
            TheOne({Info(typed, sub, tc, cleaned) :
                        cleaned \in {clean_discipline_name(tc[3])}})
        Subgrouped(typed, sub) ==
            TheOne({Named(typed, sub, tc) :
                        tc \in {extract_teachers_and_cabinets(sub[2])}})
        Typed(typed) ==
            TheOne({Subgrouped(typed, sub) : sub \in {extract_subgroup(typed[2])}})
        Normalized(text) ==
            TheOne({Typed(typed) : typed \in {extract_lesson_type(text)}})
    IN  IF raw_text = "" \/ strip(raw_text) \in {"_", ""}
        THEN LessonInfo("", None, <<>>, <<>>, NoneInt)
        ELSE TheOne({Normalized(text) : text \in {normalize_text(raw_text)}})

\* parse_lesson_info did not look for the filler
parse_lesson_infoNoFiller(raw_text) ==
    LET Info(typed, sub, tc, cleaned) ==
            LessonInfo(IF cleaned = "" /\ (tc[1] # <<>> \/ tc[2] # <<>>)
                       THEN sub[2] ELSE cleaned,
                       typed[1], tc[1], tc[2], sub[1])
        Named(typed, sub, tc) ==
            TheOne({Info(typed, sub, tc, cleaned) :
                        cleaned \in {clean_discipline_name(tc[3])}})
        Subgrouped(typed, sub) ==
            TheOne({Named(typed, sub, tc) :
                        tc \in {extract_teachers_and_cabinets(sub[2])}})
        Typed(typed) ==
            TheOne({Subgrouped(typed, sub) : sub \in {extract_subgroup(typed[2])}})
        Normalized(text) ==
            TheOne({Typed(typed) : typed \in {extract_lesson_type(text)}})
    IN  IF raw_text = "" \/ strip(raw_text) = ""
        THEN LessonInfo("", None, <<>>, <<>>, NoneInt)
        ELSE TheOne({Normalized(text) : text \in {normalize_text(raw_text)}})

\* parse_lesson_info: the type prefix, the subgroup marker, the teachers in
\* capitals, the classrooms, and what is left as the name
parse_lesson_info(raw_text) ==
    LET Info(typed, sub, tc, cleaned) ==
            LessonInfo(IF cleaned = "" /\ (tc[1] # <<>> \/ tc[2] # <<>>)
                       THEN sub[2] ELSE cleaned,
                       typed[1], tc[1], tc[2], sub[1])
        Named(typed, sub, tc) ==
            TheOne({Info(typed, sub, tc, cleaned) :
                        cleaned \in {clean_discipline_name(tc[3])}})
        Subgrouped(typed, sub) ==
            TheOne({Named(typed, sub, tc) :
                        tc \in {extract_teachers_and_cabinets(sub[2])}})
        Typed(typed) ==
            TheOne({Subgrouped(typed, sub) : sub \in {extract_subgroup(typed[2])}})
        Normalized(text) ==
            TheOne({Typed(typed) : typed \in {extract_lesson_type(text)}})
    IN  IF raw_text = "" \/ strip(raw_text) \in {"_", ""}
        THEN LessonInfo("", None, <<>>, <<>>, NoneInt)
        ELSE TheOne({Normalized(text) : text \in {normalize_text(raw_text)}})

\* the cell texts of the pages below
T_hist == "lek.Istoria MIHEEV B.V. a.15-466"
T_histSpaces == "lek.Istoria  MIHEEV B.V.  a.15-466"
T_hist2 == "lek.Istoria BYKOV AV a.15-466"
T_lang1 == "pr.Inostrannyj azyk- 1 p/g CYBIKOVA L.B. a.0331"
T_lang2 == "pr.Inostrannyj azyk- 2 p/g DANZANOVA S.V. a.0107"
T_dash == "-"

\* ------------------------------------------------------------------ Lesson
Lesson(group_id, name, lesson_date, day_of_week, lesson_number, start_time, end_time, teacher_name, cabinet_number, wt, lesson_type, raw_text, subgroup) ==
    [lesson_id |-> NoneInt, group_id |-> group_id, name |-> name,
     lesson_date |-> lesson_date, day_of_week |-> day_of_week,
     lesson_number |-> lesson_number, start_time |-> start_time,
     end_time |-> end_time, week_type |-> wt,
     teacher_name |-> teacher_name, cabinet_number |-> cabinet_number,
     subgroup |-> subgroup, raw_text |-> raw_text, lesson_type |-> lesson_type,
     date_added |-> NoneInt, last_updated |-> NoneInt]

\* a value that is not a Lesson (isinstance(other, Lesson) is false)
NotALesson == [not_a_lesson |-> TRUE]

isinstance_Lesson(other) == other # NotALesson

\* Lesson.__eq__ compared lesson_id as well
Lesson__eq__WithId(self, other) ==
    IF ~isinstance_Lesson(other) THEN FALSE
    ELSE /\ self.name = other.name
         /\ self.teacher_name = other.teacher_name
         /\ self.cabinet_number = other.cabinet_number
         /\ self.start_time = other.start_time
         /\ self.end_time = other.end_time
         /\ self.subgroup = other.subgroup
         /\ self.lesson_id = other.lesson_id

\* Lesson.__eq__ forgot the classroom
Lesson__eq__NoCabinet(self, other) ==
    IF ~isinstance_Lesson(other) THEN FALSE
    ELSE /\ self.name = other.name
         /\ self.teacher_name = other.teacher_name
         /\ self.start_time = other.start_time
         /\ self.end_time = other.end_time
         /\ self.subgroup = other.subgroup

Lesson__eq__(self, other) ==
    IF ~isinstance_Lesson(other) THEN FALSE
    ELSE /\ self.name = other.name
         /\ self.teacher_name = other.teacher_name
         /\ self.cabinet_number = other.cabinet_number
         /\ self.start_time = other.start_time
         /\ self.end_time = other.end_time
         /\ self.subgroup = other.subgroup

\* ----------------------------------------------------------------- builder
\* one element of get_schedule_data(): the row's cells (day label first) and
\* its metadata
Row(label, has_blue, cells) == [row |-> <<label>> \o cells, has_blue |-> has_blue]

\* the lesson a period cell yields, as a list of zero or one Lesson
CellLesson(group_id, day_of_week, lesson_number, cell_text, wt, base_monday) ==
    LET Built(lesson_info, start_time, end_time) ==
            IF lesson_info.name = "" THEN <<>>
            ELSE IF start_time = <<>> THEN <<>>
            ELSE << Lesson(group_id, lesson_info.name,
                           base_monday + (day_of_week - 1), day_of_week,
                           lesson_number, start_time, end_time,
                           join(lesson_info.teachers), join(lesson_info.cabinets),
                           wt, lesson_info.lesson_type, cell_text,
                           lesson_info.subgroup) >>
    IN  IF cell_text = "" \/ strip(cell_text) \in {"_", ""} THEN <<>>
        ELSE Built(parse_lesson_info(cell_text), LESSON_TIMES(lesson_number)[1],
                   LESSON_TIMES(lesson_number)[2])

\* the cell loop ended at the first cell it could not make a lesson of
RECURSIVE CellsLessonsUntilSkip(_, _, _, _, _, _)
CellsLessonsUntilSkip(group_id, day_of_week, row_cells, lesson_number, wt, base_monday) ==
    IF lesson_number > Len(row_cells) THEN <<>>
    ELSE LET Rest(here) ==
                 IF here = <<>> THEN <<>>
                 ELSE here \o CellsLessonsUntilSkip(group_id, day_of_week, row_cells,
                                                    lesson_number + 1, wt, base_monday)
         IN  Rest(CellLesson(group_id, day_of_week, lesson_number,
                             row_cells[lesson_number], wt, base_monday))

RECURSIVE CellsLessons(_, _, _, _, _, _)
CellsLessons(group_id, day_of_week, row_cells, lesson_number, wt, base_monday) ==
    IF lesson_number > Len(row_cells) THEN <<>>
    ELSE CellLesson(group_id, day_of_week, lesson_number,
                    row_cells[lesson_number], wt, base_monday)
         \o CellsLessons(group_id, day_of_week, row_cells, lesson_number + 1,
                         wt, base_monday)

RowWeekTypeFlagEven(has_highlight, highlight_present, current_week_type) ==
    LET next_week_type == IF current_week_type = "even" THEN "odd" ELSE "even"
    IN  IF highlight_present
        THEN (IF has_highlight THEN current_week_type ELSE next_week_type)
        ELSE (IF has_highlight THEN "even" ELSE "odd")

RowWeekTypeSwapped(has_highlight, highlight_present, current_week_type) ==
    LET next_week_type == IF current_week_type = "even" THEN "odd" ELSE "even"
    IN  IF highlight_present
        THEN (IF has_highlight THEN next_week_type ELSE current_week_type)
        ELSE (IF has_highlight THEN "odd" ELSE "even")

\* the week type a row belongs to
RowWeekType(has_highlight, highlight_present, current_week_type) ==
    LET next_week_type == IF current_week_type = "even" THEN "odd" ELSE "even"
    IN  IF highlight_present
        THEN (IF has_highlight THEN current_week_type ELSE next_week_type)
        ELSE (IF has_highlight THEN "odd" ELSE "even")

\* the lessons of one row of schedule_data
RowLessons(group_id, entry, highlight_present, target_date) ==
    LET Cells(day_of_week, row_week_type, base_monday) ==
            IF day_of_week = NoneInt THEN <<>>
            ELSE CellsLessons(group_id, day_of_week, Tail(entry.row), 1,
                              row_week_type, base_monday)
        Week(day_of_week, row_week_type, current_week_monday) ==
            Cells(day_of_week, row_week_type,
                  IF highlight_present
                  THEN (IF entry.has_blue THEN current_week_monday
                        ELSE current_week_monday + 7)
                  ELSE (IF row_week_type = "odd"
                        THEN get_monday_of_week(target_date, "odd")
                        ELSE get_monday_of_week(target_date, "even")))
        Day(day_str) ==
            IF day_str = "" THEN <<>>
            ELSE Week(DAY_MAPPING(SubSeq(day_str, 1, Min(3, Len(day_str)))),
                      RowWeekType(entry.has_blue, highlight_present,
                                  get_week_type_for_date(target_date)),
                      get_monday_of_week(target_date, None))
    IN  IF Len(entry.row) < 2 THEN <<>>
        ELSE Day(lower(normalize_text(entry.row[1])))

RECURSIVE RowsLessons(_, _, _, _, _)
RowsLessons(group_id, schedule_data, row_idx, highlight_present, target_date) ==
    IF row_idx > Len(schedule_data) THEN <<>>
    ELSE RowLessons(group_id, schedule_data[row_idx], highlight_present, target_date)
         \o RowsLessons(group_id, schedule_data, row_idx + 1, highlight_present, target_date)

IsEven(l) == l.week_type = "even"
IsOdd(l) == l.week_type # "even"

\* parse_schedule_html on the rows the table extractor recovered from the
\* page; today is the value date.today() returns during the call
parse_schedule_html(schedule_data, group_id, target_date) ==
    LET highlight_present ==
            \E i \in 1..Len(schedule_data) : schedule_data[i].has_blue
        Split(all) == [even |-> SelectSeq(all, IsEven), odd |-> SelectSeq(all, IsOdd)]
    IN  Split(RowsLessons(group_id, schedule_data, 1, highlight_present, target_date))

\* the pages fetched in the runs
PageEmpty == <<>>
PageHighlight ==
    << Row("Pnd", TRUE, <<T_hist, T_lang1>>), Row("Pnd", FALSE, <<T_hist2>>) >>
PagePlain ==
    << Row("Pnd", FALSE, <<T_hist>>), Row("Vtr", FALSE, <<"_", T_lang2>>) >>
PagePlainChanged ==
    << Row("Pnd", FALSE, <<T_hist2>>), Row("Vtr", FALSE, <<"_", T_lang2>>) >>
PageSameLabelTwice ==
    << Row("Pnd", FALSE, <<T_hist>>), Row(" pnd.", FALSE, <<T_hist2>>) >>
PageSubgroups ==
    << Row("Pnd", FALSE, <<T_lang1>>), Row("Pnd", FALSE, <<T_lang2>>) >>
PageNoise ==
    << Row("Pnd", FALSE, <<T_histSpaces>>), Row("Xyz", FALSE, <<T_hist>>),
       Row("Vtr", FALSE, <<T_dash, "_", T_lang1, "_", "_", "_", T_hist>>),
       Row("Srd", FALSE, <<>>) >>

Pages == {PageEmpty, PageHighlight, PagePlain, PagePlainChanged,
          PageSameLabelTwice, PageSubgroups, PageNoise}

\* ----------------------------------------------------------------- storage
\* the group the reconciliation specification runs parse_group for
GroupId == 1

\* SQL NULL in the OldData / NewData columns
NoData == [null |-> TRUE]

\* the state of the store: the Lesson table (a set of rows, each a Lesson
\* with its LessonId) and the schedule_changes table (in insertion order)
EmptyStore == [lessons |-> {}, changes |-> <<>>]

\* INSERT INTO Lesson ... RETURNING LessonId, on the state a connection sees
insert_lesson(store, lesson, new_id, now) ==
    [store EXCEPT !.lessons =
        @ \cup {[lesson EXCEPT !.lesson_id = new_id, !.date_added = now,
                               !.last_updated = now]}]

\* DELETE FROM Lesson WHERE LessonId = $1
delete_lesson(store, id) ==
    [store EXCEPT !.lessons = {r \in @ : r.lesson_id # id}]

\* log_schedule_change returned early when there was no old snapshot
log_schedule_changeNeedsOld(store, id, change_type, old_data, new_data) ==
    IF old_data = [null |-> TRUE] THEN store
    ELSE [store EXCEPT !.changes =
            Append(@, [lesson_id |-> id, change_type |-> change_type,
                       old_data |-> old_data, new_data |-> new_data])]

\* INSERT INTO schedule_changes (LessonId, ChangeType, OldData, NewData)
log_schedule_change(store, id, change_type, old_data, new_data) ==
    [store EXCEPT !.changes =
        Append(@, [lesson_id |-> id, change_type |-> change_type,
                   old_data |-> old_data, new_data |-> new_data])]

MatchingRowsAnyWeek(store, group_id, wt) ==
    {r \in store.lessons : r.group_id = group_id}

\* the rows SELECT ... WHERE GroupId = $1 AND WeekType = $2 matches
MatchingRows(store, group_id, wt) ==
    {r \in store.lessons : r.group_id = group_id /\ r.week_type = wt}

\* ORDER BY DayOfWeek, LessonNumber: every listing of the rows in that order
\* (rows that tie come in either order)
OrderedListings(rows) ==
    {f \in [1..Cardinality(rows) -> rows] :
        /\ \A i, j \in 1..Cardinality(rows) : i # j => f[i] # f[j]
        /\ \A i, j \in 1..Cardinality(rows) :
              i < j => \/ f[i].day_of_week < f[j].day_of_week
                       \/ /\ f[i].day_of_week = f[j].day_of_week
                          /\ f[i].lesson_number <= f[j].lesson_number}

\* the transaction ended without commit kept what it had written
RollbackKeepsWrites(committed, working) == working

\* connection.transaction().__aexit__ with an exception: ROLLBACK
Rollback(committed, working) == committed

\* connection.transaction().__aexit__ without an exception: COMMIT
CommitTx(committed, working) == working

\* ---------------------------------------------------------------- compare
LessonKey(l) == <<l.day_of_week, l.lesson_number, l.subgroup>>

\* the keys of {key(l): l for l in lessons}, in insertion order
RECURSIVE MapKeys(_)
MapKeys(lessons) ==
    IF lessons = <<>> THEN <<>>
    ELSE LET rest == MapKeys(SubSeq(lessons, 1, Len(lessons) - 1))
             k == LessonKey(lessons[Len(lessons)])
         IN  IF \E i \in 1..Len(rest) : rest[i] = k THEN rest ELSE Append(rest, k)

HasKey(lessons, k) == \E i \in 1..Len(lessons) : LessonKey(lessons[i]) = k

\* {key(l): l for l in lessons}[k]: the last lesson with that key
MapGet(lessons, k) ==
    lessons[CHOOSE i \in 1..Len(lessons) :
                /\ LessonKey(lessons[i]) = k
                /\ \A j \in (i + 1)..Len(lessons) : LessonKey(lessons[j]) # k]

RECURSIVE InsertsFrom(_, _, _)
InsertsFrom(keys, existing, new) ==
    IF keys = <<>> THEN <<>>
    ELSE (IF ~HasKey(existing, Head(keys)) THEN <<MapGet(new, Head(keys))>> ELSE <<>>)
         \o InsertsFrom(Tail(keys), existing, new)

\* the update loop queued every key present in both sets
UpdatesFromAlways(keys, existing, new) ==
    LET Both(k) == HasKey(existing, k)
        Pair(k) == <<MapGet(existing, k),
                     [MapGet(new, k) EXCEPT !.lesson_id = MapGet(existing, k).lesson_id]>>
        ks == SelectSeq(keys, Both)
    IN  [i \in 1..Len(ks) |-> Pair(ks[i])]

RECURSIVE UpdatesFrom(_, _, _)
UpdatesFrom(keys, existing, new) ==
    IF keys = <<>> THEN <<>>
    ELSE (IF /\ HasKey(existing, Head(keys))
             /\ ~Lesson__eq__(MapGet(existing, Head(keys)), MapGet(new, Head(keys)))
          THEN << <<MapGet(existing, Head(keys)),
                    [MapGet(new, Head(keys)) EXCEPT
                        !.lesson_id = MapGet(existing, Head(keys)).lesson_id]>> >>
          ELSE <<>>)
         \o UpdatesFrom(Tail(keys), existing, new)

\* the delete queue left out the last of the keys that are gone
DeletesFromButLast(keys, existing, new) ==
    LET Gone(k) == ~HasKey(new, k)
        Queue(ks) == [i \in 1..(Len(ks) - 1) |-> MapGet(existing, ks[i])]
    IN  Queue(SelectSeq(keys, Gone))

\* the delete loop queued every persisted lesson
DeletesFromAll(keys, existing, new) ==
    [i \in 1..Len(keys) |-> MapGet(existing, keys[i])]

RECURSIVE DeletesFrom(_, _, _)
DeletesFrom(keys, existing, new) ==
    IF keys = <<>> THEN <<>>
    ELSE (IF ~HasKey(new, Head(keys)) THEN <<MapGet(existing, Head(keys))>> ELSE <<>>)
         \o DeletesFrom(Tail(keys), existing, new)

\* the snapshots the ChangeRecords carry
NewData(l) == [name |-> l.name, teacher |-> l.teacher_name,
               subgroup |-> l.subgroup, cabinet |-> l.cabinet_number]
DeleteOldData(l) == [name |-> l.name, teacher |-> l.teacher_name,
                     subgroup |-> l.subgroup]

\* ------------------------------------------------------------------- state
VARIABLES
    \* parse_group and compare_and_update_lessons, one group
    today,              \* the last value date.today() returned (none yet: NoneInt)
    html,               \* the rows of the page of the current run
    built,              \* (even_lessons, odd_lessons) of parse_schedule_html
    week_type,          \* the week type of the current pass
    existing_lessons,   \* what get_existing_lessons returned
    to_insert, to_update, to_delete,
    idx,                \* position of the running loop in its queue
    lesson_id,          \* what the last insert_lesson returned
    counts,             \* added, updated, deleted of the current pass
    returned,           \* the triple the last completed pass returned
    even_counts,        \* the triple of the even pass of the current run
    pc,                 \* where parse_group is
    db,                 \* committed state of the store
    tx,                 \* state the connection sees inside its transaction
    id_seq,             \* the LessonId sequence
    runs,               \* parse_group calls started
    result,             \* the ParseResult of the last finished run
    prev,               \* page, date and outcome of the run before this one,
                        \* and the store as this run found it
    pass_start,         \* the committed state when the current pass began
    failed_at,          \* the step whose storage call raised, if any
    \* parse_groups_batch
    limit,              \* config.max_concurrent_parses
    semaphore,          \* the value of the asyncio.Semaphore
    task,               \* per task: where parse_with_semaphore is
    group_found,        \* per task: whether the store knows the group
    outcome,            \* per task: the ParseResult it returned
    raised,             \* per task: the step that raised, if any
    calls,              \* per task: the collaborator calls it has made
    batch_pc,           \* where parse_groups_batch is
    results,            \* what parse_groups_batch returned
    \* Lesson.__eq__
    eq_self, eq_other,  \* the two operands
    eq_result,          \* <<>> before the comparison, <<value>> after it
    \* get_week_type_for_date
    cal_date,           \* the argument, a date
    cal_week_type,      \* <<>> before the call, <<week type of cal_date>> after
    cal_next_week_type, \* <<week type of the same weekday one week later>>
    \* parse_lesson_info and the builder on one cell
    td_text,            \* the text of the cell
    td_info,            \* <<>> before the call, <<LessonInfo>> after it
    td_lessons,         \* <<>> before the build, <<lessons built>> after it
    \* get_database
    db_instance,        \* the module's _db_instance: None or the Database
    pool,               \* the pool attribute of that Database
    slots,              \* the value of the batch's semaphore
    caller,             \* where each task of the batch is
    \* concurrent pipelines on one group
    shared,             \* the committed state of the store
    serial,             \* the last value of the LessonId sequence
    pipe,               \* each pipeline's parse_group call
    passes,             \* parse_group calls started
    \* one pipeline's storage session
    idle_conns,         \* the pool's connections nobody holds
    conn,               \* the connection parse_group holds, 0 for none
    sess_pc,            \* where parse_group is
    sess_week,          \* the week type of the current pass
    plan,               \* the storage calls each pass's lists ask for
    script,             \* the calls the current pass has yet to make
    open_tx,            \* the number of the open transaction, 0 for none
    tx_count,           \* transactions begun so far
    journal,            \* every storage event so far, oldest first
    sess_status,             \* "" while running, then "ok" or "failed"
    \* one group's page fetch
    max_retries,        \* config.max_retries
    attempt,            \* the loop variable of retry_async
    fetch_pc,           \* where the fetch is
    fetch_log,          \* the attempts and the waits so far, oldest first
    last_exception,     \* retry_async's last_exception
    fetch_out,          \* what fetch_schedule_html returned or raised
    group_result,       \* the ParseResult of the group
    storage_writes,     \* storage writes made for the group
    \* the table extractor
    markup,             \* the page fed to the extractor
    feed_left,          \* the tag and text events not handled yet
    extractor,          \* the attributes of the ScheduleHTMLParser object
    extracted,          \* <<>> before get_schedule_data, <<its value>> after
    extract_pc,         \* where the extraction is
    \* one call of the builder
    sheet,              \* the rows get_schedule_data returned for the page
    run_date,           \* the value of date.today() during the call
    lessons_out,        \* <<>> before the call, <<what it returned>> after
    \* one call of get_monday_of_week
    mon_date,           \* target_date
    mon_week_type,      \* week_type: "even", "odd" or None
    mon_result          \* <<>> before the call, <<the Monday returned>> after


recVars == <<today, html, built, week_type, existing_lessons, to_insert,
             to_update, to_delete, idx, lesson_id, counts, returned,
             even_counts, pc, db, tx, id_seq, runs, result, prev, pass_start,
             failed_at>>
batchVars == <<limit, semaphore, task, group_found, outcome, raised, calls,
               batch_pc, results>>
eqVars == <<eq_self, eq_other, eq_result>>
calVars == <<cal_date, cal_week_type, cal_next_week_type>>
cellVars == <<td_text, td_info, td_lessons>>
handleVars == <<db_instance, pool, slots, caller>>
raceVars == <<shared, serial, pipe, passes>>
sessVars == <<idle_conns, conn, sess_pc, sess_week, plan, script, open_tx, tx_count, journal, sess_status>>
fetchVars == <<max_retries, attempt, fetch_pc, fetch_log, last_exception, fetch_out, group_result, storage_writes>>
extractVars == <<markup, feed_left, extractor, extracted, extract_pc>>
buildVars == <<sheet, run_date, lessons_out>>
mondayVars == <<mon_date, mon_week_type, mon_result>>
vars == <<recVars, batchVars, eqVars, calVars, cellVars, handleVars, raceVars, sessVars, fetchVars, extractVars, buildVars, mondayVars>>

\* what the steps of one part of the program leave alone: the other parts
notRec == <<batchVars, eqVars, calVars, cellVars, handleVars, raceVars, sessVars, fetchVars, extractVars, buildVars, mondayVars>>
notBatch == <<recVars, eqVars, calVars, cellVars, handleVars, raceVars, sessVars, fetchVars, extractVars, buildVars, mondayVars>>
notEq == <<recVars, batchVars, calVars, cellVars, handleVars, raceVars, sessVars, fetchVars, extractVars, buildVars, mondayVars>>
notCal == <<recVars, batchVars, eqVars, cellVars, handleVars, raceVars, sessVars, fetchVars, extractVars, buildVars, mondayVars>>
notCell == <<recVars, batchVars, eqVars, calVars, handleVars, raceVars, sessVars, fetchVars, extractVars, buildVars, mondayVars>>
notHandle == <<recVars, batchVars, eqVars, calVars, cellVars, raceVars, sessVars, fetchVars, extractVars, buildVars, mondayVars>>
notRace == <<recVars, batchVars, eqVars, calVars, cellVars, handleVars, sessVars, fetchVars, extractVars, buildVars, mondayVars>>
notSess == <<recVars, batchVars, eqVars, calVars, cellVars, handleVars, raceVars, fetchVars, extractVars, buildVars, mondayVars>>
notFetch == <<recVars, batchVars, eqVars, calVars, cellVars, handleVars, raceVars, sessVars, extractVars, buildVars, mondayVars>>
notExtract == <<recVars, batchVars, eqVars, calVars, cellVars, handleVars, raceVars, sessVars, fetchVars, buildVars, mondayVars>>
notBuild == <<recVars, batchVars, eqVars, calVars, cellVars, handleVars, raceVars, sessVars, fetchVars, extractVars, mondayVars>>
notMonday == <<recVars, batchVars, eqVars, calVars, cellVars, handleVars, raceVars, sessVars, fetchVars, extractVars, buildVars>>

ZeroCounts == [added |-> 0, updated |-> 0, deleted |-> 0]
\* a ParseResult; NoResult stands for "not returned yet"
ParseResult(status, group_id, details, added, updated, deleted, errors) ==
    [status |-> status, group_id |-> group_id, details |-> details,
     lessons_added |-> added, lessons_updated |-> updated,
     lessons_deleted |-> deleted, errors |-> errors]
NoResult == ParseResult(FALSE, NoneInt, None, 0, 0, 0, None)

RecInit ==
    /\ today = NoneInt
    /\ html = <<>>
    /\ built = [even |-> <<>>, odd |-> <<>>]
    /\ week_type = "even"
    /\ existing_lessons = <<>>
    /\ to_insert = <<>> /\ to_update = <<>> /\ to_delete = <<>>
    /\ idx = 1
    /\ lesson_id = NoneInt
    /\ counts = ZeroCounts
    /\ returned = ZeroCounts
    /\ even_counts = ZeroCounts
    /\ pc = "idle"
    /\ db = EmptyStore
    /\ tx = EmptyStore
    /\ id_seq = 0
    /\ runs = 0
    /\ result = NoResult
    /\ prev = [html |-> <<>>, today |-> NoneInt, status |-> FALSE, store |-> EmptyStore]
    /\ pass_start = EmptyStore
    /\ failed_at = None

BatchIdle ==
    /\ limit = 1
    /\ semaphore = 1
    /\ task = <<>>
    /\ group_found = <<>>
    /\ outcome = <<>>
    /\ raised = <<>>
    /\ calls = <<>>
    /\ batch_pc = "idle"
    /\ results = <<>>

EqIdle ==
    /\ eq_self = NotALesson
    /\ eq_other = NotALesson
    /\ eq_result = <<>>

CalIdle ==
    /\ cal_date = NoneInt
    /\ cal_week_type = <<>>
    /\ cal_next_week_type = <<>>

CellIdle ==
    /\ td_text = ""
    /\ td_info = <<>>
    /\ td_lessons = <<>>

HandleIdle ==
    /\ db_instance = None
    /\ pool = None
    /\ slots = 0
    /\ caller = [i \in 1..NumGroups |-> "created"]

RaceIdle ==
    /\ shared = [lessons |-> {}, changes |-> <<>>]
    /\ serial = 0
    /\ pipe = [p \in Pipelines |->
                [pc |-> "idle", new |-> [even |-> <<>>, odd |-> <<>>],
                 wt |-> "even", existing |-> <<>>, seen |-> [lessons |-> {}, changes |-> <<>>]]]
    /\ passes = 0

SessIdle ==
    /\ idle_conns = {}
    /\ conn = 0
    /\ sess_pc = "off"
    /\ sess_week = "even"
    /\ plan = <<>>
    /\ script = <<>>
    /\ open_tx = 0
    /\ tx_count = 0
    /\ journal = <<>>
    /\ sess_status = ""

FetchIdle ==
    /\ max_retries = 0
    /\ attempt = 0
    /\ fetch_pc = "off"
    /\ fetch_log = <<>>
    /\ last_exception = None
    /\ fetch_out = <<>>
    /\ group_result = NoResult
    /\ storage_writes = 0

ExtractIdle ==
    /\ markup = <<>>
    /\ feed_left = <<>>
    /\ extractor = <<>>
    /\ extracted = <<>>
    /\ extract_pc = "off"

BuildIdle ==
    /\ sheet = <<>>
    /\ run_date = NoneInt
    /\ lessons_out = <<>>

MondayIdle ==
    /\ mon_date = NoneInt
    /\ mon_week_type = None
    /\ mon_result = <<>>

\* ------------------------------------------------------------- parse_group
\* parse_group up to the first compare: the page is fetched and
\* parse_schedule_html builds the two lesson lists
\* the two lists parse_schedule_html returns for each page on each date
built_lessons ==
    { [html |-> page, today |-> d,
       lessons |-> parse_schedule_html(page, GroupId, d)] :
         page \in Pages, d \in TodayDates }

StartRun ==
    /\ pc \in {"idle", "done"}
    /\ runs < MaxRuns
    /\ \E b \in built_lessons :
          /\ b.today >= today
          /\ today' = b.today
          /\ html' = b.html
          /\ built' = b.lessons
    /\ prev' = [html |-> html, today |-> today, status |-> result.status, store |-> db]
    /\ runs' = runs + 1
    /\ result' = NoResult
    /\ failed_at' = None
    /\ week_type' = "even"
    /\ pc' = "compare"
    /\ UNCHANGED <<existing_lessons, to_insert, to_update, to_delete, idx,
                   lesson_id, counts, returned, even_counts, db, tx, id_seq,
                   pass_start>>
    /\ UNCHANGED notRec


new_lessons == IF week_type = "even" THEN built.even ELSE built.odd

\* the delete loop removed the row first and logged the change after it
DeleteLoopOrderRemoveFirst == <<"delete_lesson", "log_delete">>

\* the two storage calls of the body of the delete loop, in program order
DeleteLoopOrder == <<"log_delete", "delete_lesson">>

\* the first loop of the transaction block that has work
PhaseFrom(phase, ti, tu, td) ==
    IF phase = "insert" /\ ti # <<>> THEN "insert_lesson"
    ELSE IF phase \in {"insert", "update"} /\ tu # <<>> THEN "update_lesson"
    ELSE IF td # <<>> THEN DeleteLoopOrder[1]
    ELSE "commit"

\* where the delete loop goes after one of the two calls of its body;
\* deleted += 1 follows the second call
AfterDeleteCall(step) ==
    IF step = DeleteLoopOrder[1]
    THEN [pc |-> DeleteLoopOrder[2], idx |-> idx, counts |-> counts]
    ELSE [pc |-> IF idx < Len(to_delete) THEN DeleteLoopOrder[1] ELSE "commit",
          idx |-> IF idx < Len(to_delete) THEN idx + 1 ELSE 1,
          counts |-> [counts EXCEPT !.deleted = @ + 1]]

\* _process up to the transaction block: load the persisted lessons, build
\* the two maps and the three queues, open the transaction
Compare ==
    /\ pc = "compare"
    /\ \E listing \in OrderedListings(MatchingRows(db, GroupId, week_type)) :
          LET existing == [i \in 1..Len(listing) |-> listing[i]]
              ti == InsertsFrom(MapKeys(new_lessons), existing, new_lessons)
              tu == UpdatesFrom(MapKeys(new_lessons), existing, new_lessons)
              td == DeletesFrom(MapKeys(existing), existing, new_lessons)
          IN  /\ existing_lessons' = existing
              /\ to_insert' = ti
              /\ to_update' = tu
              /\ to_delete' = td
              /\ pc' = PhaseFrom("insert", ti, tu, td)
    /\ pass_start' = db
    /\ tx' = db
    /\ counts' = ZeroCounts
    /\ idx' = 1
    /\ UNCHANGED <<today, html, built, week_type, lesson_id, returned,
                   even_counts, db, id_seq, runs, result, prev, failed_at>>
    /\ UNCHANGED notRec

\* db.insert_lesson(new_lesson, conn=connection)
InsertLesson ==
    /\ pc = "insert_lesson"
    /\ id_seq' = id_seq + 1
    /\ lesson_id' = id_seq + 1
    /\ tx' = insert_lesson(tx, to_insert[idx], id_seq + 1, today)
    /\ pc' = "log_new"
    /\ UNCHANGED <<today, html, built, week_type, existing_lessons, to_insert,
                   to_update, to_delete, idx, counts, returned, even_counts,
                   db, runs, result, prev, pass_start, failed_at>>
    /\ UNCHANGED notRec

\* db.log_schedule_change(lesson_id, ChangeType.NEW, ...) and added += 1
LogNew ==
    /\ pc = "log_new"
    /\ tx' = log_schedule_change(tx, lesson_id, "new", NoData, NewData(to_insert[idx]))
    /\ counts' = [counts EXCEPT !.added = @ + 1]
    /\ IF idx < Len(to_insert)
       THEN idx' = idx + 1 /\ pc' = "insert_lesson"
       ELSE idx' = 1 /\ pc' = PhaseFrom("update", to_insert, to_update, to_delete)
    /\ UNCHANGED <<today, html, built, week_type, existing_lessons, to_insert,
                   to_update, to_delete, lesson_id, returned, even_counts, db,
                   id_seq, runs, result, prev, pass_start, failed_at>>
    /\ UNCHANGED notRec

\* how a run ends when an exception leaves the transaction block: the
\* transaction is rolled back and parse_group returns a failure result
Fails(step, error) ==
    /\ db' = Rollback(db, tx)
    /\ tx' = Rollback(db, tx)
    /\ failed_at' = step
    /\ result' = ParseResult(FALSE, GroupId, "Parsing failed", 0, 0, 0, error)
    /\ pc' = "done"
    /\ UNCHANGED <<today, html, built, week_type, existing_lessons, to_insert,
                   to_update, to_delete, idx, lesson_id, counts, returned,
                   even_counts, id_seq, runs, prev, pass_start>>
    /\ UNCHANGED notRec

\* db.update_lesson(new_lesson, conn=connection): Database has no attribute
\* update_lesson, the call raises AttributeError
UpdateLesson ==
    /\ pc = "update_lesson"
    /\ Fails("update_lesson", "AttributeError")

\* db.log_schedule_change(existing_lesson.lesson_id, ChangeType.DELETE, ...)
\* of the delete loop
LogDelete ==
    /\ pc = "log_delete"
    /\ tx' = log_schedule_change(tx, to_delete[idx].lesson_id, "delete",
                                 DeleteOldData(to_delete[idx]), NoData)
    /\ pc' = AfterDeleteCall("log_delete").pc
    /\ idx' = AfterDeleteCall("log_delete").idx
    /\ counts' = AfterDeleteCall("log_delete").counts
    /\ UNCHANGED <<today, html, built, week_type, existing_lessons, to_insert,
                   to_update, to_delete, lesson_id, returned, even_counts, db,
                   id_seq, runs, result, prev, pass_start, failed_at>>
    /\ UNCHANGED notRec

\* db.delete_lesson(existing_lesson.lesson_id, conn=connection) of the
\* delete loop
DeleteLesson ==
    /\ pc = "delete_lesson"
    /\ tx' = delete_lesson(tx, to_delete[idx].lesson_id)
    /\ pc' = AfterDeleteCall("delete_lesson").pc
    /\ idx' = AfterDeleteCall("delete_lesson").idx
    /\ counts' = AfterDeleteCall("delete_lesson").counts
    /\ UNCHANGED <<today, html, built, week_type, existing_lessons, to_insert,
                   to_update, to_delete, lesson_id, returned, even_counts, db,
                   id_seq, runs, result, prev, pass_start, failed_at>>
    /\ UNCHANGED notRec

\* the transaction block exits normally: commit, _process returns its
\* counts; after the even pass parse_group goes on to the odd pass, after
\* the odd pass it returns the success result
Commit ==
    /\ pc = "commit"
    /\ db' = CommitTx(db, tx)
    /\ tx' = CommitTx(db, tx)
    /\ returned' = counts
    /\ IF week_type = "even"
       THEN /\ even_counts' = counts
            /\ week_type' = "odd"
            /\ pc' = "compare"
            /\ result' = result
       ELSE /\ even_counts' = even_counts
            /\ week_type' = week_type
            /\ pc' = "done"
            /\ result' = ParseResult(TRUE, GroupId, "Successfully parsed schedule",
                                      even_counts.added + counts.added,
                                      even_counts.updated + counts.updated,
                                      even_counts.deleted + counts.deleted, None)
    /\ UNCHANGED <<today, html, built, existing_lessons, to_insert, to_update,
                   to_delete, idx, lesson_id, counts, id_seq, runs, prev,
                   pass_start, failed_at>>
    /\ UNCHANGED notRec

StorageSteps == {"compare", "insert_lesson", "log_new", "log_delete",
                 "delete_lesson", "commit"}

\* a storage call raises (connection lost, constraint, timeout)
StorageFailure ==
    /\ pc \in StorageSteps
    /\ Fails(pc, "PostgresError")

Init == RecInit /\ BatchIdle /\ EqIdle /\ CalIdle /\ CellIdle /\ HandleIdle /\ RaceIdle /\ SessIdle /\ FetchIdle /\ ExtractIdle /\ BuildIdle /\ MondayIdle

Next ==
    \/ StartRun
    \/ Compare
    \/ InsertLesson
    \/ LogNew
    \/ UpdateLesson
    \/ LogDelete
    \/ DeleteLesson
    \/ Commit
    \/ StorageFailure

Spec == Init /\ [][Next]_vars

\* ------------------------------------------------------ parse_groups_batch
Tasks == 1..NumGroups

\* the group_ids argument: task i runs parse_with_semaphore(group_ids[i])
group_ids == [i \in Tasks |-> 100 + i]

NoCalls == [get_group_info |-> 0, fetch |-> 0, build |-> 0, reconcile |-> 0,
            writes |-> 0]

BatchInit ==
    /\ limit \in 1..MaxConcurrent
    /\ semaphore = limit
    /\ task = [i \in Tasks |-> "created"]
    /\ group_found \in [Tasks -> BOOLEAN]
    /\ outcome = [i \in Tasks |-> NoResult]
    /\ raised = [i \in Tasks |-> None]
    /\ calls = [i \in Tasks |-> NoCalls]
    /\ batch_pc = "gather"
    /\ results = <<>>

\* the semaphore let every task in
CanAcquireAlways(value) == TRUE

\* asyncio.Semaphore.acquire() goes through without waiting
CanAcquire(value) == value > 0

\* async with semaphore: enter
Acquire(i) ==
    /\ task[i] = "created"
    /\ CanAcquire(semaphore)
    /\ semaphore' = semaphore - 1
    /\ task' = [task EXCEPT ![i] = "get_group_info"]
    /\ UNCHANGED <<limit, group_found, outcome, raised, calls, batch_pc, results>>
    /\ UNCHANGED notBatch

\* the slot is given back when parse_group returned the success result only
ReturnAndReleaseOnSuccess(i, r) ==
    /\ outcome' = [outcome EXCEPT ![i] = r]
    /\ semaphore' = IF r.status THEN semaphore + 1 ELSE semaphore
    /\ task' = [task EXCEPT ![i] = "done"]

\* return await parse_group(gid) hands over the result r and async with
\* semaphore exits: Semaphore.__aexit__ releases without suspending, so the
\* task runs from the return to its end in one step of the event loop
ReturnAndRelease(i, r) ==
    /\ outcome' = [outcome EXCEPT ![i] = r]
    /\ semaphore' = semaphore + 1
    /\ task' = [task EXCEPT ![i] = "done"]

\* parse_group went on to the fetch without looking at group_info
AfterLookupUnchecked(found) == "fetch"

\* if not group_info: return ParseResult(...)
AfterLookup(found) == IF found THEN "fetch" ELSE "return"

\* db.get_group_info(group_id) returns a GroupInfo or None
GetGroupInfo(i) ==
    /\ task[i] = "get_group_info"
    /\ calls' = [calls EXCEPT ![i].get_group_info = @ + 1]
    /\ IF AfterLookup(group_found[i]) = "return"
       THEN ReturnAndRelease(i, ParseResult(FALSE, group_ids[i],
                                           "Group not found or inactive", 0, 0, 0,
                                           "GROUP_NOT_FOUND"))
       ELSE /\ task' = [task EXCEPT ![i] = AfterLookup(group_found[i])]
            /\ UNCHANGED <<outcome, semaphore>>
    /\ UNCHANGED <<limit, group_found, raised, batch_pc, results>>
    /\ UNCHANGED notBatch

\* fetch_schedule_html(group_info.url) returns the page
Fetch(i) ==
    /\ task[i] = "fetch"
    /\ calls' = [calls EXCEPT ![i].fetch = @ + 1]
    /\ task' = [task EXCEPT ![i] = "build"]
    /\ UNCHANGED <<limit, semaphore, group_found, outcome, raised, batch_pc, results>>
    /\ UNCHANGED notBatch

\* parse_schedule_html(html, group_id) returns the two lists
Build(i) ==
    /\ task[i] = "build"
    /\ calls' = [calls EXCEPT ![i].build = @ + 1]
    /\ task' = [task EXCEPT ![i] = "reconcile_even"]
    /\ UNCHANGED <<limit, semaphore, group_found, outcome, raised, batch_pc, results>>
    /\ UNCHANGED notBatch

\* compare_and_update_lessons(..., WeekType.EVEN, conn=conn) returns, having
\* committed w changes
ReconcileEven(i) ==
    /\ task[i] = "reconcile_even"
    /\ \E w \in 0..1 :
          calls' = [calls EXCEPT ![i].reconcile = @ + 1, ![i].writes = @ + w]
    /\ task' = [task EXCEPT ![i] = "reconcile_odd"]
    /\ UNCHANGED <<limit, semaphore, group_found, outcome, raised, batch_pc, results>>
    /\ UNCHANGED notBatch

\* compare_and_update_lessons(..., WeekType.ODD, conn=conn) returns and
\* parse_group returns the success result
ReconcileOdd(i) ==
    /\ task[i] = "reconcile_odd"
    /\ \E w \in 0..1 :
          /\ calls' = [calls EXCEPT ![i].reconcile = @ + 1, ![i].writes = @ + w]
          /\ ReturnAndRelease(i,
                ParseResult(TRUE, group_ids[i], "Successfully parsed schedule",
                            calls[i].writes + w, 0, 0, None))
    /\ UNCHANGED <<limit, group_found, raised, batch_pc, results>>
    /\ UNCHANGED notBatch

PipelineSteps == {"get_group_info", "fetch", "build", "reconcile_even",
                  "reconcile_odd"}

\* the call the task is at raises; except Exception turns it into the
\* failure result of this group
Raise(i) ==
    /\ task[i] \in PipelineSteps
    /\ raised' = [raised EXCEPT ![i] = task[i]]
    /\ calls' = [calls EXCEPT
                    ![i].get_group_info = IF task[i] = "get_group_info" THEN @ + 1 ELSE @,
                    ![i].fetch = IF task[i] = "fetch" THEN @ + 1 ELSE @,
                    ![i].build = IF task[i] = "build" THEN @ + 1 ELSE @,
                    ![i].reconcile = IF task[i] \in {"reconcile_even", "reconcile_odd"}
                                     THEN @ + 1 ELSE @]
    /\ ReturnAndRelease(i, ParseResult(FALSE, group_ids[i], "Parsing failed",
                                        0, 0, 0, "Exception"))
    /\ UNCHANGED <<limit, group_found, batch_pc, results>>
    /\ UNCHANGED notBatch

IsSuccess(r) == r.status

\* the batch returned the successful results only
GatherResultsSuccessful(outs) == SelectSeq(outs, IsSuccess)

\* asyncio.gather(*tasks): the results in the order of the tasks
GatherResults(outs) == [i \in 1..Len(outs) |-> outs[i]]

\* results = await asyncio.gather(*tasks); return results
Gather ==
    /\ batch_pc = "gather"
    /\ \A i \in Tasks : task[i] = "done"
    /\ results' = GatherResults(outcome)
    /\ batch_pc' = "returned"
    /\ UNCHANGED <<limit, semaphore, task, group_found, outcome, raised, calls>>
    /\ UNCHANGED notBatch

RecIdle ==
    /\ today = NoneInt
    /\ html = <<>>
    /\ built = [even |-> <<>>, odd |-> <<>>]
    /\ week_type = "even"
    /\ existing_lessons = <<>>
    /\ to_insert = <<>> /\ to_update = <<>> /\ to_delete = <<>>
    /\ idx = 1
    /\ lesson_id = NoneInt
    /\ counts = ZeroCounts
    /\ returned = ZeroCounts
    /\ even_counts = ZeroCounts
    /\ pc = "idle"
    /\ db = EmptyStore
    /\ tx = EmptyStore
    /\ id_seq = 0
    /\ runs = MaxRuns
    /\ result = NoResult
    /\ prev = [html |-> <<>>, today |-> NoneInt, status |-> FALSE, store |-> EmptyStore]
    /\ pass_start = EmptyStore
    /\ failed_at = None

InitBatch == RecIdle /\ BatchInit /\ EqIdle /\ CalIdle /\ CellIdle /\ HandleIdle /\ RaceIdle /\ SessIdle /\ FetchIdle /\ ExtractIdle /\ BuildIdle /\ MondayIdle

NextBatch ==
    \/ \E i \in Tasks : Acquire(i)
    \/ \E i \in Tasks : GetGroupInfo(i)
    \/ \E i \in Tasks : Fetch(i)
    \/ \E i \in Tasks : Build(i)
    \/ \E i \in Tasks : ReconcileEven(i)
    \/ \E i \in Tasks : ReconcileOdd(i)
    \/ \E i \in Tasks : Raise(i)
    \/ Gather

SpecBatch == InitBatch /\ [][NextBatch]_vars

\* the event loop runs a task that is ready to run
SpecBatchFair == SpecBatch /\ WF_vars(NextBatch)

\* ------------------------------------------------------------ Lesson.__eq__
EqFields == {"lesson_id", "group_id", "name", "lesson_date", "day_of_week",
             "lesson_number", "start_time", "end_time", "week_type",
             "teacher_name", "cabinet_number", "subgroup", "raw_text",
             "lesson_type", "date_added", "last_updated"}

\* a second value of each field
Other(f, v) ==
    CASE f \in {"lesson_id", "group_id", "lesson_date", "day_of_week",
                "lesson_number", "date_added", "last_updated"} -> v + 1
      [] f \in {"start_time", "end_time"} -> <<v[1], v[2] + 5>>
      [] f = "week_type" -> (IF v = "even" THEN "odd" ELSE "even")
      [] f = "subgroup" -> (IF v = NoneInt THEN 1 ELSE NoneInt)
      [] OTHER -> (IF v = None THEN "X" ELSE None)

\* the lesson with the fields of F changed
Changed(l, F) == [f \in DOMAIN l |-> IF f \in F THEN Other(f, l[f]) ELSE l[f]]

\* a persisted lesson and a freshly built one
EqSelves ==
    { [Lesson(GroupId, "Istoria", Ordinal(2025, 9, 8), 1, 1, <<9, 0>>, <<10, 35>>,
              "MIHEEV B.V.", "a.15-466", "even", "Lekcia", T_hist, NoneInt)
         EXCEPT !.lesson_id = 7, !.date_added = Ordinal(2025, 9, 1),
                !.last_updated = Ordinal(2025, 9, 1)],
      Lesson(GroupId, "Inostrannyj azyk", Ordinal(2025, 9, 16), 2, 3, <<13, 0>>,
             <<14, 35>>, None, None, "odd", None, T_lang1, 1) }

InitEq ==
    /\ RecIdle
    /\ BatchIdle
    /\ CalIdle /\ CellIdle /\ HandleIdle /\ RaceIdle /\ SessIdle /\ FetchIdle /\ ExtractIdle /\ BuildIdle /\ MondayIdle
    /\ eq_self \in EqSelves
    /\ eq_other \in {Changed(eq_self, F) : F \in SUBSET EqFields} \cup {NotALesson}
    /\ eq_result = <<>>

\* eq_self == eq_other
Equals ==
    /\ eq_result = <<>>
    /\ eq_result' = <<Lesson__eq__(eq_self, eq_other)>>
    /\ UNCHANGED <<eq_self, eq_other>>
    /\ UNCHANGED notEq

NextEq == Equals

SpecEq == InitEq /\ [][NextEq]_vars

\* ------------------------------------------------- get_week_type_for_date
\* the dates the function is called on: every day from 2019-01-01 to
\* 2026-12-24
CalDates == Ordinal(2019, 1, 1)..Ordinal(2026, 12, 24)

InitCal ==
    /\ RecIdle
    /\ BatchIdle
    /\ EqIdle
    /\ CellIdle /\ HandleIdle /\ RaceIdle /\ SessIdle /\ FetchIdle /\ ExtractIdle /\ BuildIdle /\ MondayIdle
    /\ cal_date \in CalDates
    /\ cal_week_type = <<>>
    /\ cal_next_week_type = <<>>

\* get_week_type_for_date(d) and get_week_type_for_date(d + timedelta(days=7))
WeekTypes ==
    /\ cal_week_type = <<>>
    /\ cal_week_type' = <<get_week_type_for_date(cal_date)>>
    /\ cal_next_week_type' = <<get_week_type_for_date(cal_date + 7)>>
    /\ UNCHANGED cal_date
    /\ UNCHANGED notCal

NextCal == WeekTypes

SpecCal == InitCal /\ [][NextCal]_vars

\* ------------------------------------------------------- parse_lesson_info
\* the parts cells are put together from
CellNames == {"Istoria", "Himia", "Inostrannyj azyk"}
CellTeachers == {"MIHEEV B.V.", "SACINOVA N.V."}
SecondTeachers == {"BAZAROVA M.D.", "DANZANOVA S.V."}
CellCodes == {"15-466", "8402"}
SecondCodes == {"718a", "0107"}
Gaps == {" ", "   "}
Links == {" - ", " "}

\* type prefix + name + SURNAME I.I. + a.code
SimpleCell(prefix, name, teacher, code) ==
    prefix \o name \o " " \o teacher \o " a." \o code

\* a simple cell followed by a second pair, SURNAME I.I. - a.code
PairCell(prefix, name, teacher, code, gap, teacher2, link, code2) ==
    SimpleCell(prefix, name, teacher, code) \o gap \o teacher2 \o link \o "a." \o code2

SimpleCells ==
    {SimpleCell(LESSON_TYPE_PREFIXES[k][1], n, t, c) :
        k \in 1..Len(LESSON_TYPE_PREFIXES), n \in CellNames,
        t \in CellTeachers, c \in CellCodes}

PairCells ==
    {PairCell("pr.", n, t, c, g[1], t2, g[2], c2) :
        n \in {"Inostrannyj azyk"}, t \in CellTeachers, c \in CellCodes,
        g \in Gaps \X Links, t2 \in SecondTeachers, c2 \in SecondCodes}

\* the empty cell, cells of whitespace, the filler
PlaceholderCells == {"", " ", "   ", "\t", "~", " \t ", "_", " _ ", "_ ", "\t_"}

\* "pr." + name + link + digit + gap + the subgroup abbreviation + rest
SubgroupLinks == {"- ", " "}
SubgroupDigits == {"0", "1", "2", "3"}
SubgroupGaps == {"", " "}
SubgroupMarks == {"p/g", "P/G"}
SubgroupRests == {"", " CYBIKOVA L.B. a.0331"}

SubgroupCell(name, link, digit, gap, mark, rest) ==
    "pr." \o name \o link \o digit \o gap \o mark \o rest

SubgroupCells ==
    {SubgroupCell("Inostrannyj azyk", k, d, g, m, r) :
        k \in SubgroupLinks, d \in SubgroupDigits, g \in SubgroupGaps,
        m \in SubgroupMarks, r \in SubgroupRests}

\* cells of a teacher or a classroom and nothing that could be a name
NamelessCells ==
    {"MIHEEV B.V. a.15-466", "lek. MIHEEV B.V. a.15-466", "lek.MIHEEV B.V.",
     "a.8402", " a.8402 ", "lab.a.8402", "- 1 p/g MIHEEV B.V.",
     "pr.2 p/g a.0107 ", "MIHEEV B.V. - BAZAROVA M.D."}

\* cells that end in a label in capitals, a number after it or not
LabelCells ==
    {"Fiziceskaa kulqtura i sport FKS 21 a.9-Sport1",
     "Fiziceskaa kulqtura i sport FKS 21",
     "Fiziceskaa kulqtura i sport FKS a.9-Sport1"}

CellTexts ==
    SimpleCells \cup PairCells \cup PlaceholderCells \cup SubgroupCells
    \cup NamelessCells \cup LabelCells

\* the day the builder runs on
CellToday == Ordinal(2025, 9, 16)

InitCell ==
    /\ RecIdle
    /\ BatchIdle
    /\ EqIdle
    /\ CalIdle
    /\ HandleIdle /\ RaceIdle /\ SessIdle /\ FetchIdle /\ ExtractIdle /\ BuildIdle /\ MondayIdle
    /\ td_text \in CellTexts
    /\ td_info = <<>>
    /\ td_lessons = <<>>

\* lesson_info = parse_lesson_info(cell_text)
ParseCell ==
    /\ td_info = <<>>
    /\ td_info' = <<parse_lesson_info(td_text)>>
    /\ UNCHANGED <<td_text, td_lessons>>
    /\ UNCHANGED notCell

\* even_lessons, odd_lessons = parse_schedule_html(html, group_id), on a
\* page whose one row holds the cell
BuildCell ==
    /\ td_lessons = <<>>
    /\ td_lessons' = <<parse_schedule_html(<<Row("Pnd", FALSE, <<td_text>>)>>, GroupId, CellToday)>>
    /\ UNCHANGED <<td_text, td_info>>
    /\ UNCHANGED notCell

NextCell == ParseCell \/ BuildCell

SpecCell == InitCell /\ [][NextCell]_vars

\* ------------------------------------------------------------ get_database
\* a cold start: no Database object yet; the batch lets up to
\* max_concurrent_parses tasks into parse_group at a time
InitHandle ==
    /\ RecIdle
    /\ BatchIdle
    /\ EqIdle
    /\ CalIdle
    /\ CellIdle
    /\ RaceIdle /\ SessIdle /\ FetchIdle /\ ExtractIdle /\ BuildIdle /\ MondayIdle
    /\ db_instance = None
    /\ pool = None
    /\ slots \in 1..MaxConcurrent
    /\ caller = [i \in Tasks |-> "created"]

\* async with semaphore: enter, and parse_group runs up to its first await
\* that suspends
EnterParseGroup(i) ==
    /\ caller[i] = "created"
    /\ CanAcquire(slots)
    /\ slots' = slots - 1
    /\ caller' = [caller EXCEPT ![i] = "get_database"]
    /\ UNCHANGED <<db_instance, pool>>
    /\ UNCHANGED notHandle

\* db = await get_database(): the task that finds _db_instance None stores a
\* new Database (pool None) and suspends in create_pool; a task that finds
\* the object is handed it at once
GetDatabase(i) ==
    /\ caller[i] = "get_database"
    /\ IF db_instance = None
       THEN /\ db_instance' = "Database"
            /\ caller' = [caller EXCEPT ![i] = IF pool = None THEN "create_pool"
                                                ELSE "get_group_info"]
       ELSE /\ db_instance' = db_instance
            /\ caller' = [caller EXCEPT ![i] = "get_group_info"]
    /\ UNCHANGED <<pool, slots>>
    /\ UNCHANGED notHandle

\* self.pool = await asyncpg.create_pool(...): the pool is there
CreatePool(i) ==
    /\ caller[i] = "create_pool"
    /\ pool' = "Pool"
    /\ caller' = [caller EXCEPT ![i] = "get_group_info"]
    /\ UNCHANGED <<db_instance, slots>>
    /\ UNCHANGED notHandle

\* group_info = await db.get_group_info(group_id): self.pool.acquire() on a
\* Database whose pool is None raises AttributeError, parse_group returns a
\* failure result and the semaphore is released
FirstStorageCall(i) ==
    /\ caller[i] = "get_group_info"
    /\ caller' = [caller EXCEPT ![i] = IF pool = None THEN "failed" ELSE "returned"]
    /\ slots' = slots + 1
    /\ UNCHANGED <<db_instance, pool>>
    /\ UNCHANGED notHandle

NextHandle ==
    \E i \in Tasks :
        \/ EnterParseGroup(i)
        \/ GetDatabase(i)
        \/ CreatePool(i)
        \/ FirstStorageCall(i)

SpecHandle == InitHandle /\ [][NextHandle]_vars

\* ----------------------------------------------------- concurrent pipelines
\* two parse_group calls for the same group id at once (the id listed twice
\* in a batch, or two batches): each connection reads what is committed,
\* and a transaction's writes show to the others when it commits
PageOne == << Row("Pnd", FALSE, <<T_hist>>) >>
PageOneChanged == << Row("Pnd", FALSE, <<T_hist2>>) >>
RacePages == {PageEmpty, PageOne, PageOneChanged, PageSubgroups}
RaceToday == Ordinal(2025, 9, 16)
\* even_lessons, odd_lessons = parse_schedule_html(html, group_id) of each page
RaceBuilt == [page \in RacePages |-> parse_schedule_html(page, GroupId, RaceToday)]

\* the insert loop of _process inside the transaction: insert_lesson, then
\* log_schedule_change(NEW), for each queued lesson
RECURSIVE ApplyInserts(_, _, _, _)
ApplyInserts(store, inserts, last_id, now) ==
    IF inserts = <<>> THEN store
    ELSE ApplyInserts(
            log_schedule_change(
                insert_lesson(store, Head(inserts), last_id + 1, now),
                last_id + 1, "new", NoData, NewData(Head(inserts))),
            Tail(inserts), last_id + 1, now)

\* the delete loop of _process inside the transaction:
\* log_schedule_change(DELETE), then delete_lesson, for each queued lesson
RECURSIVE ApplyDeletes(_, _)
ApplyDeletes(store, deletes) ==
    IF deletes = <<>> THEN store
    ELSE ApplyDeletes(
            delete_lesson(
                log_schedule_change(store, Head(deletes).lesson_id, "delete",
                                    DeleteOldData(Head(deletes)), NoData),
                Head(deletes).lesson_id),
            Tail(deletes))

InitRace ==
    /\ RecIdle
    /\ BatchIdle
    /\ EqIdle
    /\ CalIdle
    /\ CellIdle
    /\ HandleIdle
    /\ SessIdle /\ FetchIdle /\ ExtractIdle /\ BuildIdle /\ MondayIdle
    /\ shared = EmptyStore
    /\ serial = 0
    /\ pipe = [p \in Pipelines |->
                [pc |-> "idle", new |-> [even |-> <<>>, odd |-> <<>>],
                 wt |-> "even", existing |-> <<>>, seen |-> EmptyStore]]
    /\ passes = 0

\* parse_group up to the even pass: fetch_schedule_html and
\* parse_schedule_html
RaceStart(p) ==
    /\ pipe[p].pc \in {"idle", "done", "failed"}
    /\ passes < MaxPasses
    /\ \E page \in RacePages :
          pipe' = [pipe EXCEPT ![p] =
                      [pc |-> "read",
                       new |-> RaceBuilt[page],
                       wt |-> "even", existing |-> <<>>, seen |-> EmptyStore]]
    /\ passes' = passes + 1
    /\ UNCHANGED <<shared, serial>>
    /\ UNCHANGED notRace

\* existing_lessons = await db.get_existing_lessons(...): the rows committed
\* at that moment
RaceRead(p) ==
    /\ pipe[p].pc = "read"
    /\ \E listing \in OrderedListings(MatchingRows(shared, GroupId, pipe[p].wt)) :
          pipe' = [pipe EXCEPT ![p].pc = "apply",
                               ![p].existing = [i \in 1..Len(listing) |-> listing[i]],
                               ![p].seen = shared]
    /\ UNCHANGED <<shared, serial, passes>>
    /\ UNCHANGED notRace

\* the comparison and the transaction block of _process: the writes of the
\* insert and delete loops are committed together; db.update_lesson raises
\* AttributeError when an update is queued, the transaction rolls back and
\* parse_group returns a failure
RaceApply(p) ==
    /\ pipe[p].pc = "apply"
    /\ LET new == pipe[p].new[pipe[p].wt]
           existing == pipe[p].existing
           ti == InsertsFrom(MapKeys(new), existing, new)
           tu == UpdatesFrom(MapKeys(new), existing, new)
           td == DeletesFrom(MapKeys(existing), existing, new)
           working == ApplyDeletes(ApplyInserts(shared, ti, serial, RaceToday), td)
       IN  /\ serial' = serial + Len(ti)
           /\ IF tu # <<>>
              THEN /\ shared' = Rollback(shared, working)
                   /\ pipe' = [pipe EXCEPT ![p].pc = "failed"]
              ELSE /\ shared' = CommitTx(shared, working)
                   /\ pipe' = [pipe EXCEPT
                                 ![p].pc = IF pipe[p].wt = "even" THEN "read" ELSE "done",
                                 ![p].wt = "odd"]
    /\ UNCHANGED passes
    /\ UNCHANGED notRace

NextRace == \E p \in Pipelines : RaceStart(p) \/ RaceRead(p) \/ RaceApply(p)

SpecRace == InitRace /\ [][NextRace]_vars

\* ------------------------------------------------------------------
\* One pipeline's storage session: parse_group takes one connection of
\* the pool, runs the even pass and then the odd pass on it, and the
\* context manager gives the connection back.

Connections == 1..PoolSize

\* the calls of the three loops of the transaction block
InsertCalls == <<"insert_lesson", "log_schedule_change">>
UpdateCalls == <<"update_lesson", "log_schedule_change">>
DeleteCalls == <<"log_schedule_change", "delete_lesson">>
PassScripts == {<<>>, InsertCalls, DeleteCalls, InsertCalls \o DeleteCalls,
                UpdateCalls}
Plans == [even : PassScripts, odd : PassScripts]

StorageEvent(op, week, c, t) == [op |-> op, week |-> week, conn |-> c, tx |-> t]

ReleasesAfterSuccessOnly(state) == state = "ok"

\* finally: await self.pool.release(connection)
ReleasesAfterFailureToo(state) == state \in {"ok", "failed"}

InitSess ==
    /\ RecIdle /\ BatchIdle /\ EqIdle /\ CalIdle /\ CellIdle /\ HandleIdle
    /\ RaceIdle /\ FetchIdle /\ ExtractIdle /\ BuildIdle /\ MondayIdle
    /\ idle_conns = Connections
    /\ conn = 0
    /\ sess_pc = "idle"
    /\ sess_week = "even"
    /\ plan = [even |-> <<>>, odd |-> <<>>]
    /\ script = <<>>
    /\ open_tx = 0
    /\ tx_count = 0
    /\ journal = <<>>
    /\ sess_status = ""

\* parse_group has built the two collections and reaches the with block
SessStart ==
    /\ sess_pc = "idle"
    /\ \E chosen \in Plans : plan' = chosen
    /\ sess_pc' = "acquire"
    /\ UNCHANGED <<idle_conns, conn, sess_week, script, open_tx, tx_count,
                   journal, sess_status, notSess>>

\* another user of the pool takes a connection or gives one back
OtherBorrower ==
    /\ \E c \in Connections \ {conn} :
          idle_conns' = IF c \in idle_conns THEN idle_conns \ {c}
                        ELSE idle_conns \cup {c}
    /\ UNCHANGED <<conn, sess_pc, sess_week, plan, script, open_tx, tx_count,
                   journal, sess_status, notSess>>

\* connection = await self.pool.acquire(); yield connection
SessAcquire ==
    /\ sess_pc = "acquire"
    /\ \E c \in idle_conns :
          /\ conn' = c
          /\ idle_conns' = idle_conns \ {c}
    /\ sess_pc' = "select"
    /\ sess_week' = "even"
    /\ UNCHANGED <<plan, script, open_tx, tx_count, journal, sess_status, notSess>>

\* existing_lessons = await db.get_existing_lessons(..., conn=connection)
SessSelect ==
    /\ sess_pc = "select"
    /\ journal' = Append(journal,
                         StorageEvent("get_existing_lessons", sess_week, conn, 0))
    /\ script' = plan[sess_week]
    /\ sess_pc' = "begin"
    /\ UNCHANGED <<idle_conns, conn, sess_week, plan, open_tx, tx_count,
                   sess_status, notSess>>

\* async with connection.transaction(): entry
SessBegin ==
    /\ sess_pc = "begin"
    /\ tx_count' = tx_count + 1
    /\ open_tx' = tx_count + 1
    /\ journal' = Append(journal,
                         StorageEvent("begin", sess_week, conn, tx_count + 1))
    /\ sess_pc' = IF script = <<>> THEN "commit" ELSE "call"
    /\ UNCHANGED <<idle_conns, conn, sess_week, plan, script, sess_status, notSess>>

\* one call of the loops, on the connection the pass was given
SessCall ==
    /\ sess_pc = "call"
    /\ journal' = Append(journal,
                         StorageEvent(Head(script), sess_week, conn, open_tx))
    /\ script' = Tail(script)
    /\ sess_pc' = IF Tail(script) = <<>> THEN "commit" ELSE "call"
    /\ UNCHANGED <<idle_conns, conn, sess_week, plan, open_tx, tx_count,
                   sess_status, notSess>>

\* async with connection.transaction(): normal exit; parse_group goes on to
\* the odd pass after the even one, and leaves the with block after the odd
SessCommit ==
    /\ sess_pc = "commit"
    /\ journal' = Append(journal,
                         StorageEvent("commit", sess_week, conn, open_tx))
    /\ open_tx' = 0
    /\ IF sess_week = "even"
       THEN /\ sess_week' = "odd"
            /\ sess_pc' = "select"
            /\ sess_status' = sess_status
       ELSE /\ sess_week' = sess_week
            /\ sess_pc' = "release"
            /\ sess_status' = "ok"
    /\ UNCHANGED <<idle_conns, conn, plan, script, tx_count, notSess>>

\* a storage call raises: the open transaction rolls back and the exception
\* leaves the with block
SessRaise ==
    /\ sess_pc \in {"select", "begin", "call", "commit"}
    /\ journal' = IF open_tx = 0 THEN journal
                  ELSE Append(journal,
                              StorageEvent("rollback", sess_week, conn, open_tx))
    /\ open_tx' = 0
    /\ sess_status' = "failed"
    /\ sess_pc' = "release"
    /\ UNCHANGED <<idle_conns, conn, sess_week, plan, script, tx_count, notSess>>

\* the finally clause of acquire_connection, then the result or the except
\* clause of parse_group
SessRelease ==
    /\ sess_pc = "release"
    /\ IF ReleasesAfterFailureToo(sess_status)
       THEN /\ idle_conns' = idle_conns \cup {conn}
            /\ conn' = 0
       ELSE UNCHANGED <<idle_conns, conn>>
    /\ sess_pc' = "done"
    /\ UNCHANGED <<sess_week, plan, script, open_tx, tx_count, journal,
                   sess_status, notSess>>

NextSess ==
    \/ SessStart
    \/ OtherBorrower
    \/ SessAcquire
    \/ SessSelect
    \/ SessBegin
    \/ SessCall
    \/ SessCommit
    \/ SessRaise
    \/ SessRelease

SpecSess == InitSess /\ [][NextSess]_vars

\* ------------------------------------------------------------------
\* The reconciliation of one group against a store that already holds
\* another group's lessons and their change records.

OtherGroup == GroupId + 1

\* the lessons the other group's pipeline built from its page in the week
\* of RaceToday, an odd week: the Monday lessons of both week types, in the
\* slots the group's own pages fill
OtherGroupLessons ==
    LET OnMonday(monday, wt, teacher_name, raw_text) ==
            Lesson(OtherGroup, "Istoria", monday, 1, 1, LESSON_TIMES(1)[1],
                   LESSON_TIMES(1)[2], teacher_name, "a.15-466", wt, "Lekcia",
                   raw_text, NoneInt)
    IN  << OnMonday(RaceToday - 1, "odd", "MIHEEV B.V.", T_hist),
           OnMonday(RaceToday + 6, "even", "BYKOV A.V.", T_hist2) >>

\* what the other group's pipeline has stored: its lessons, each with its
\* "new" record
OtherGroupStore == ApplyInserts(EmptyStore, OtherGroupLessons, 0, RaceToday)

InitFrame ==
    /\ today = NoneInt
    /\ html = <<>>
    /\ built = [even |-> <<>>, odd |-> <<>>]
    /\ week_type = "even"
    /\ existing_lessons = <<>>
    /\ to_insert = <<>> /\ to_update = <<>> /\ to_delete = <<>>
    /\ idx = 1
    /\ lesson_id = NoneInt
    /\ counts = ZeroCounts
    /\ returned = ZeroCounts
    /\ even_counts = ZeroCounts
    /\ pc = "idle"
    /\ db = OtherGroupStore
    /\ tx = db
    /\ id_seq = Cardinality(db.lessons)
    /\ runs = 0
    /\ result = NoResult
    /\ prev = [html |-> <<>>, today |-> NoneInt, status |-> FALSE, store |-> db]
    /\ pass_start = db
    /\ failed_at = None
    /\ BatchIdle /\ EqIdle /\ CalIdle /\ CellIdle /\ HandleIdle
    /\ RaceIdle /\ SessIdle /\ FetchIdle /\ ExtractIdle /\ BuildIdle /\ MondayIdle

SpecFrame == InitFrame /\ [][Next]_vars

\* ------------------------------------------------------------------
\* The fetch of one group's page: fetch_schedule_html runs _fetch under
\* retry_async, and parse_group goes on with the text or ends with the
\* failure result.

\* config.retry_delay and config.retry_exponential_base
retry_delay == 1
retry_exponential_base == 2

RECURSIVE Power(_, _)
Power(base, exponent) ==
    IF exponent = 0 THEN 1 ELSE base * Power(base, exponent - 1)

\* delay = config.retry_delay * (config.retry_exponential_base ** (attempt - 1))
Delay(n) == retry_delay * Power(retry_exponential_base, n - 1)

\* what _fetch raises: a transport error, a timeout, a bad status
FetchErrors == {"ClientConnectorError", "TimeoutError", "ClientResponseError"}
PageTexts == {"page", "page changed"}

Attempted(n, ok, what) == [kind |-> "attempt", n |-> n, ok |-> ok, what |-> what]
Waited(n, delay) == [kind |-> "sleep", n |-> n, ok |-> FALSE, what |-> delay]

\* a wait followed every failed attempt
SleepsAfterEveryFailure(n, most) == TRUE

\* if attempt < config.max_retries
SleepsAfter(n, most) == n < most

InitFetch ==
    /\ RecIdle /\ BatchIdle /\ EqIdle /\ CalIdle /\ CellIdle /\ HandleIdle
    /\ RaceIdle /\ SessIdle /\ ExtractIdle /\ BuildIdle /\ MondayIdle
    /\ max_retries \in 1..MaxRetriesBound
    /\ attempt = 0
    /\ fetch_pc = "idle"
    /\ fetch_log = <<>>
    /\ last_exception = None
    /\ fetch_out = <<>>
    /\ group_result = NoResult
    /\ storage_writes = 0

\* html = await fetch_schedule_html(group_info.url): retry_async enters its
\* loop
FetchStart ==
    /\ fetch_pc = "idle"
    /\ attempt' = 1
    /\ fetch_pc' = "try"
    /\ UNCHANGED <<max_retries, fetch_log, last_exception, fetch_out,
                   group_result, storage_writes, notFetch>>

\* return await func(*args, **kwargs): _fetch returns the decoded text
AttemptReturns ==
    /\ fetch_pc = "try"
    /\ \E text \in PageTexts :
          /\ fetch_log' = Append(fetch_log, Attempted(attempt, TRUE, text))
          /\ fetch_out' = <<"returned", text>>
    /\ fetch_pc' = "fetched"
    /\ UNCHANGED <<max_retries, attempt, last_exception, group_result,
                   storage_writes, notFetch>>

\* except Exception as e: last_exception = e, then the wait or the end of
\* the loop
AttemptRaises ==
    /\ fetch_pc = "try"
    /\ \E e \in FetchErrors :
          /\ fetch_log' = Append(fetch_log, Attempted(attempt, FALSE, e))
          /\ last_exception' = e
    /\ fetch_pc' = IF SleepsAfter(attempt, max_retries) THEN "sleep"
                   ELSE "exhausted"
    /\ UNCHANGED <<max_retries, attempt, fetch_out, group_result,
                   storage_writes, notFetch>>

\* await asyncio.sleep(delay), then the next turn of the loop, if any
Sleep ==
    /\ fetch_pc = "sleep"
    /\ fetch_log' = Append(fetch_log, Waited(attempt, Delay(attempt)))
    /\ IF attempt < max_retries
       THEN attempt' = attempt + 1 /\ fetch_pc' = "try"
       ELSE attempt' = attempt /\ fetch_pc' = "exhausted"
    /\ UNCHANGED <<max_retries, last_exception, fetch_out, group_result,
                   storage_writes, notFetch>>

\* raise last_exception leaves retry_async and fetch_schedule_html; the
\* except clause of parse_group returns the failure result
FetchFails ==
    /\ fetch_pc = "exhausted"
    /\ fetch_out' = <<"raised", last_exception>>
    /\ group_result' = ParseResult(FALSE, GroupId, "Parsing failed", 0, 0, 0,
                                   last_exception)
    /\ fetch_pc' = "done"
    /\ UNCHANGED <<max_retries, attempt, fetch_log, last_exception,
                   storage_writes, notFetch>>

\* parse_group goes on with the text: the build, then the two passes, which
\* write w rows and commit or fail
AfterFetch ==
    /\ fetch_pc = "fetched"
    /\ \E w \in 0..2, committed \in BOOLEAN :
          /\ storage_writes' = IF committed THEN w ELSE 0
          /\ group_result' =
                IF committed
                THEN ParseResult(TRUE, GroupId, "Successfully parsed schedule",
                                 w, 0, 0, None)
                ELSE ParseResult(FALSE, GroupId, "Parsing failed", 0, 0, 0,
                                 "PostgresError")
    /\ fetch_pc' = "done"
    /\ UNCHANGED <<max_retries, attempt, fetch_log, last_exception, fetch_out,
                   notFetch>>

NextFetch ==
    \/ FetchStart
    \/ AttemptReturns
    \/ AttemptRaises
    \/ Sleep
    \/ FetchFails
    \/ AfterFetch

SpecFetch == InitFetch /\ [][NextFetch]_vars

\* ------------------------------------------------------------------
\* The table extractor: HTMLParser.feed calls handle_starttag,
\* handle_endtag and handle_data of ScheduleHTMLParser for the tags and the
\* text of the page, in document order; get_schedule_data reads the result.

\* a page as markup: what stands before the table, the rows of the table,
\* each a sequence of td elements, each td a sequence of pieces (bare text
\* or a font element with a colour and a text), what stands after the
\* table, and how the input ends
Piece(color, text) == [color |-> color, inner |-> "", text |-> text]

\* a font element that holds another font element around the text
NestedPiece(color, inner, text) == [color |-> color, inner |-> inner, text |-> text]

TdPlain == << Piece("", "Pnd") >>
TdBlue == << Piece("#0000FF", "B") >>
TdTextAroundFont == << Piece("", "A "), Piece("red", "B"), Piece("", " C ") >>
TdTwoFonts == << Piece("red", "A"), Piece("#0000FF", "B") >>
TdMagenta == << Piece("", "A"), Piece("#ff00ff", "G") >>
TdEmpty == <<>>

TrHeader == << TdPlain, TdPlain >>
TrShapes == { << TdPlain, TdBlue >>, << TdTextAroundFont >>,
              << TdTwoFonts, TdPlain >>, << TdMagenta >>, <<>>,
              << TdEmpty, TdPlain >>, TrHeader }

HeaderShapes == { <<>>, <<TrHeader>>, <<TrHeader, TrHeader>>,
                  <<TrHeader, <<>>, TrHeader>> }

BodyShapes == UNION { [1..n -> TrShapes] : n \in 0..MaxBodyRows }

Around == { <<>>, << Piece("#ff00ff", "Group") >>, << Piece("#0000FF", "X") >>,
            << NestedPiece("#ff00ff", "#0000ff", "Y") >> }

Markups ==
    { [pre |-> a, trs |-> h \o b, post |-> z, ends |-> e] :
        a \in Around, h \in HeaderShapes, b \in BodyShapes, z \in Around,
        e \in {"closed", "row open", "cell open"} }

\* the input can end inside the last row only if there is one, inside its
\* last cell only if it has one, and nothing follows the end
WellFormedEnd(m) ==
    m.ends # "closed" =>
        /\ m.post = <<>>
        /\ m.trs # <<>>
        /\ m.trs[Len(m.trs)] # <<>>

StartTag(tag, color) == [kind |-> "start", tag |-> tag, arg |-> color]
EndTag(tag) == [kind |-> "end", tag |-> tag, arg |-> ""]
Data(text) == [kind |-> "data", tag |-> "", arg |-> text]

PieceEvents(p) ==
    IF p.color = "" THEN << Data(p.text) >>
    ELSE IF p.inner = ""
    THEN << StartTag("FONT", p.color), Data(p.text), EndTag("FONT") >>
    ELSE << StartTag("FONT", p.color), StartTag("FONT", p.inner), Data(p.text),
            EndTag("FONT"), EndTag("FONT") >>

RECURSIVE PiecesEvents(_)
PiecesEvents(pieces) ==
    IF pieces = <<>> THEN <<>>
    ELSE PieceEvents(Head(pieces)) \o PiecesEvents(Tail(pieces))

TdEvents(td) == << StartTag("TD", "") >> \o PiecesEvents(td) \o << EndTag("TD") >>

RECURSIVE TdsEvents(_)
TdsEvents(tds) ==
    IF tds = <<>> THEN <<>> ELSE TdEvents(Head(tds)) \o TdsEvents(Tail(tds))

TrEvents(tr) == << StartTag("TR", "") >> \o TdsEvents(tr) \o << EndTag("TR") >>

RECURSIVE TrsEvents(_)
TrsEvents(trs) ==
    IF trs = <<>> THEN <<>> ELSE TrEvents(Head(trs)) \o TrsEvents(Tail(trs))

\* the events HTMLParser.feed produces for the page; an input that ends in
\* an open row lacks </TR></TABLE>, one that ends in an open cell lacks
\* </TD></TR></TABLE>
MarkupEvents(m) ==
    LET Cut(events) ==
            SubSeq(events, 1,
                   Len(events) - (IF m.ends = "closed" THEN 0
                                  ELSE IF m.ends = "row open" THEN 2 ELSE 3))
    IN  PiecesEvents(m.pre)
        \o Cut(<< StartTag("TABLE", "") >> \o TrsEvents(m.trs) \o << EndTag("TABLE") >>)
        \o PiecesEvents(m.post)

\* ScheduleHTMLParser.__init__; shares_row says that current_row is the very
\* list object last appended to rows, and cell_flags keeps, for every row of
\* rows, the has_blue values recorded with its cells
NewExtractor ==
    [in_table |-> FALSE, in_row |-> FALSE, in_cell |-> FALSE,
     current_row |-> <<>>, current_row_flags |-> <<>>, rows |-> <<>>,
     row_metadata |-> <<>>, cell_data |-> <<>>, cell_has_blue |-> FALSE,
     shares_row |-> FALSE, cell_flags |-> <<>>]

\* the magenta font opened no cell
FontOpensNoCell(x, color) ==
    IF lower(color) = "#0000ff" /\ x.in_cell
    THEN [x EXCEPT !.cell_has_blue = TRUE] ELSE x

\* case "font": for attr, value in attrs: if attr == "color"
FontStart(x, color) ==
    LET Opened(y) ==
            IF lower(color) = "#0000ff" /\ y.in_cell
            THEN [y EXCEPT !.cell_has_blue = TRUE] ELSE y
    IN  IF color = "" THEN x
        ELSE Opened(IF lower(color) = "#ff00ff"
                    THEN [x EXCEPT !.in_cell = TRUE] ELSE x)

handle_starttag(x, tag, color) ==
    IF lower(tag) = "table" THEN [x EXCEPT !.in_table = TRUE]
    ELSE IF lower(tag) = "tr" /\ x.in_table
    THEN [x EXCEPT !.in_row = TRUE, !.current_row = <<>>,
                   !.current_row_flags = <<>>, !.shares_row = FALSE]
    ELSE IF lower(tag) = "td" /\ x.in_row
    THEN [x EXCEPT !.in_cell = TRUE, !.cell_data = <<>>, !.cell_has_blue = FALSE]
    ELSE IF lower(tag) = "font" THEN FontStart(x, color)
    ELSE x

\* any(flag.get("has_blue", False) for flag in self.current_row_flags)
AnyFlag(flags) == \E i \in DOMAIN flags : flags[i]

\* the end of a font element closed no cell
ClosesCellTdOnly(tag) == lower(tag) = "td"

\* case "td" | "font"
ClosesCell(tag) == lower(tag) \in {"td", "font"}

\* self.current_row.append(cell_text): the list is changed in place, so a
\* row already appended to rows changes with it
AppendCell(x, cell_text) ==
    [x EXCEPT !.current_row = Append(@, cell_text),
              !.rows = IF x.shares_row
                       THEN [@ EXCEPT ![Len(@)] = Append(@, cell_text)] ELSE @,
              !.cell_flags = IF x.shares_row
                             THEN [@ EXCEPT ![Len(@)] = Append(@, x.cell_has_blue)]
                             ELSE @,
              !.current_row_flags = Append(@, x.cell_has_blue),
              !.in_cell = FALSE, !.cell_data = <<>>, !.cell_has_blue = FALSE]

handle_endtag(x, tag) ==
    IF lower(tag) = "table" THEN [x EXCEPT !.in_table = FALSE]
    ELSE IF lower(tag) = "tr" /\ x.in_row
    THEN IF x.current_row # <<>>
         THEN [x EXCEPT !.in_row = FALSE,
                        !.rows = Append(@, x.current_row),
                        !.row_metadata = Append(@, AnyFlag(x.current_row_flags)),
                        !.cell_flags = Append(@, x.current_row_flags),
                        !.shares_row = TRUE]
         ELSE [x EXCEPT !.in_row = FALSE]
    ELSE IF ClosesCell(tag) /\ x.in_cell
    THEN AppendCell(x, strip(Concat(x.cell_data)))
    ELSE x

handle_data(x, data) ==
    IF x.in_cell THEN [x EXCEPT !.cell_data = Append(@, data)] ELSE x

get_schedule_data(x) ==
    IF Len(x.rows) <= 2 THEN <<>>
    ELSE [k \in 1..(Len(x.rows) - 2) |->
            [row |-> x.rows[k + 2], has_blue |-> x.row_metadata[k + 2]]]

InitExtract ==
    /\ RecIdle /\ BatchIdle /\ EqIdle /\ CalIdle /\ CellIdle /\ HandleIdle
    /\ RaceIdle /\ SessIdle /\ FetchIdle /\ BuildIdle /\ MondayIdle
    /\ markup \in {m \in Markups : WellFormedEnd(m)}
    /\ feed_left = MarkupEvents(markup)
    /\ extractor = NewExtractor
    /\ extracted = <<>>
    /\ extract_pc = "feed"

\* parser.feed(html): the next tag or text of the page
HandleStartTag ==
    /\ extract_pc = "feed" /\ feed_left # <<>>
    /\ Head(feed_left).kind = "start"
    /\ extractor' = handle_starttag(extractor, Head(feed_left).tag, Head(feed_left).arg)
    /\ feed_left' = Tail(feed_left)
    /\ UNCHANGED <<markup, extracted, extract_pc, notExtract>>

HandleEndTag ==
    /\ extract_pc = "feed" /\ feed_left # <<>>
    /\ Head(feed_left).kind = "end"
    /\ extractor' = handle_endtag(extractor, Head(feed_left).tag)
    /\ feed_left' = Tail(feed_left)
    /\ UNCHANGED <<markup, extracted, extract_pc, notExtract>>

HandleData ==
    /\ extract_pc = "feed" /\ feed_left # <<>>
    /\ Head(feed_left).kind = "data"
    /\ extractor' = handle_data(extractor, Head(feed_left).arg)
    /\ feed_left' = Tail(feed_left)
    /\ UNCHANGED <<markup, extracted, extract_pc, notExtract>>

\* schedule_data = parser.get_schedule_data(), after feed has returned
GetScheduleData ==
    /\ extract_pc = "feed" /\ feed_left = <<>>
    /\ extracted' = << get_schedule_data(extractor) >>
    /\ extract_pc' = "done"
    /\ UNCHANGED <<markup, feed_left, extractor, notExtract>>

NextExtract == HandleStartTag \/ HandleEndTag \/ HandleData \/ GetScheduleData

SpecExtract == InitExtract /\ [][NextExtract]_vars

\* ------------------------------------------------------------------
\* One call of parse_schedule_html on the rows of a page, on a run date.

\* run dates: around the turn of three academic years, in the autumn and
\* in the winter, on every day of the week
BuildDates ==
    (Ordinal(2024, 8, 26)..Ordinal(2024, 9, 9))
    \cup (Ordinal(2025, 8, 25)..Ordinal(2025, 9, 8))
    \cup {Ordinal(2023, 9, 1), Ordinal(2023, 9, 4), Ordinal(2025, 9, 16),
          Ordinal(2025, 9, 23), Ordinal(2026, 1, 5), Ordinal(2026, 2, 15)}

\* pages for the builder alone: highlighted and plain rows on several days,
\* a cell in a seventh column, a day label that is no day
PageHighlightDays ==
    << Row("Vtr", TRUE, <<"_", T_hist>>), Row("Vtr", FALSE, <<T_lang1>>),
       Row("Sbt", TRUE, <<T_lang2>>), Row("Vsk", FALSE, <<"_", "_", T_hist2>>) >>
PageSeventhColumn ==
    << Row("Ctv", FALSE, <<T_hist, "_", "_", "_", "_", T_lang1, T_hist2>>),
       Row("Abc", FALSE, <<T_hist>>), Row("Ptn", FALSE, <<T_dash, T_lang2>>) >>

BuildPages == Pages \cup {PageHighlightDays, PageSeventhColumn}

\* the lessons of each row of the page, row by row
RowsBuilt(entries, target_date) ==
    LET Of(highlight_present) ==
            [i \in DOMAIN entries |->
                RowLessons(GroupId, entries[i], highlight_present, target_date)]
    IN  Of(\E i \in DOMAIN entries : entries[i].has_blue)

InitBuild ==
    /\ RecIdle /\ BatchIdle /\ EqIdle /\ CalIdle /\ CellIdle /\ HandleIdle
    /\ RaceIdle /\ SessIdle /\ FetchIdle /\ ExtractIdle
    /\ MondayIdle
    /\ sheet \in BuildPages
    /\ run_date \in BuildDates
    /\ lessons_out = <<>>

\* even_lessons, odd_lessons = parse_schedule_html(html, group_id)
BuildLessons ==
    /\ lessons_out = <<>>
    /\ lessons_out' = << parse_schedule_html(sheet, GroupId, run_date) >>
    /\ UNCHANGED <<sheet, run_date, notBuild>>

NextBuild == BuildLessons

SpecBuild == InitBuild /\ [][NextBuild]_vars

\* ================================================================== claims
ApplySteps == {"insert_lesson", "log_new", "update_lesson", "log_delete",
               "delete_lesson", "commit"}

\* the run before this one returned success, and this run fetched the same page
SamePageAgain == runs >= 2 /\ prev.status /\ prev.html = html

\* ... and date.today() of both runs lies in weeks of the same week type
SamePageSameWeekType ==
    /\ SamePageAgain
    /\ get_week_type_for_date(prev.today) = get_week_type_for_date(today)

NothingQueued == to_insert = <<>> /\ to_update = <<>> /\ to_delete = <<>>

NothingCounted ==
    /\ result.lessons_added = 0
    /\ result.lessons_updated = 0
    /\ result.lessons_deleted = 0

\* C1 as stated: a second run on the identical page, after a first run that
\* committed, queues no insert, update or delete in either pass and reports
\* zero added, updated and deleted lessons.
C1_IdempotentAnyDate ==
    SamePageAgain =>
        /\ (pc \in ApplySteps => NothingQueued)
        /\ (pc = "done" /\ result.status => NothingCounted)

\* C1 amended: the same, provided the dates of the two runs lie in weeks of
\* the same week type (the week type of a highlighted row is read off
\* date.today()).
C1_IdempotentSameWeekType ==
    SamePageSameWeekType =>
        /\ (pc \in ApplySteps => NothingQueued)
        /\ (pc = "done" /\ result.status => NothingCounted)

\* a second run on the same page in a week of the same type has finished, with
\* lessons in the store
C1_Witness ==
    /\ SamePageSameWeekType
    /\ pc = "done"
    /\ result.status
    /\ Cardinality(db.lessons) >= 2

\* C2: while the Apply step of a pass is under way, and after any of its
\* storage calls has failed, the committed lessons and the committed audit
\* log are exactly what they were when the pass began.
C2_AtomicApply ==
    /\ (pc \in ApplySteps => db = pass_start)
    /\ (pc = "done" /\ failed_at \in ApplySteps => db = pass_start)

\* a pass failed in its delete loop after it had inserted a lesson
C2_Witness ==
    /\ pc = "done"
    /\ failed_at \in {"log_delete", "delete_lesson"}
    /\ counts.added > 0
    /\ db = pass_start

\* the step is a rollback
IsRollback == pc' = "done" /\ failed_at' # None

Ids(rows) == {r.lesson_id : r \in rows}

\* C3: inside the transaction, every ChangeRecord is written while the row it
\* references exists, and a row is removed only after the delete ChangeRecord
\* that references it has been written.
C3_LogBeforeRemove ==
    [][~IsRollback =>
          /\ (tx'.changes # tx.changes =>
                /\ Len(tx'.changes) = Len(tx.changes) + 1
                /\ SubSeq(tx'.changes, 1, Len(tx.changes)) = tx.changes
                /\ tx'.changes[Len(tx'.changes)].lesson_id \in Ids(tx.lessons)
                /\ tx'.changes[Len(tx'.changes)].lesson_id \in Ids(tx'.lessons))
          /\ \A r \in tx.lessons \ tx'.lessons :
                \E i \in 1..Len(tx.changes) :
                    /\ tx.changes[i].lesson_id = r.lesson_id
                    /\ tx.changes[i].change_type = "delete"]_vars

\* the delete ChangeRecord of a doomed lesson is written, its row is still there
C3_Witness ==
    /\ pc = "delete_lesson"
    /\ tx.changes # <<>>
    /\ tx.changes[Len(tx.changes)].change_type = "delete"
    /\ tx.changes[Len(tx.changes)].lesson_id = to_delete[idx].lesson_id
    /\ to_delete[idx].lesson_id \in Ids(tx.lessons)

\* the lessons agree on the fields change detection looks at
SameChangeFields(a, b) ==
    /\ a.name = b.name
    /\ a.teacher_name = b.teacher_name
    /\ a.cabinet_number = b.cabinet_number
    /\ a.start_time = b.start_time
    /\ a.end_time = b.end_time
    /\ a.subgroup = b.subgroup

\* the run has ended and no storage call was made to fail in it
EndedWithoutStorageFailure == pc = "done" /\ failed_at \notin StorageSteps

UpdateRecords(id) ==
    {i \in 1..Len(db.changes) :
        db.changes[i].lesson_id = id /\ db.changes[i].change_type = "update"}

\* C4: when the pass has queued an update for a key whose persisted and new
\* lessons differ, the row of the persisted identifier holds the new values
\* and the audit log holds exactly one update record for that identifier with
\* the old and the new teacher.
C4_UpdateApplied ==
    (EndedWithoutStorageFailure /\ to_update # <<>>) =>
        \A i \in 1..Len(to_update) :
            /\ to_update[i][2].lesson_id = to_update[i][1].lesson_id
            /\ \E r \in db.lessons :
                  /\ r.lesson_id = to_update[i][1].lesson_id
                  /\ SameChangeFields(r, to_update[i][2])
            /\ Cardinality(UpdateRecords(to_update[i][1].lesson_id)) = 1
            /\ \A j \in UpdateRecords(to_update[i][1].lesson_id) :
                  /\ db.changes[j].old_data.teacher = to_update[i][1].teacher_name
                  /\ db.changes[j].new_data.teacher = to_update[i][2].teacher_name

KeysOf(lessons) == {LessonKey(lessons[i]) : i \in 1..Len(lessons)}
TimesQueued(queue, k) ==
    Cardinality({i \in 1..Len(queue) : LessonKey(queue[i]) = k})
UpdateTargets == [i \in 1..Len(to_update) |-> to_update[i][2]]
LastWithKey(lessons, k) ==
    lessons[CHOOSE i \in 1..Len(lessons) :
                /\ LessonKey(lessons[i]) = k
                /\ \A j \in 1..Len(lessons) : LessonKey(lessons[j]) = k => j <= i]

\* C5: after Compare, a key only in the new set is queued once for insert and
\* for nothing else, a key only in the persisted set once for delete and for
\* nothing else, a key in both with equal lessons for nothing, and no key is
\* queued for more than one operation.
C5_CompareClassifies ==
    pc \in ApplySteps =>
        \A k \in KeysOf(new_lessons) \cup KeysOf(existing_lessons) \cup KeysOf(to_insert)
                 \cup KeysOf(UpdateTargets) \cup KeysOf(to_delete) :
            LET ins == TimesQueued(to_insert, k)
                upd == TimesQueued(UpdateTargets, k)
                del == TimesQueued(to_delete, k)
                inNew == k \in KeysOf(new_lessons)
                inOld == k \in KeysOf(existing_lessons)
            IN  /\ ins + upd + del <= 1
                /\ (inNew /\ ~inOld) => ins = 1
                /\ (inOld /\ ~inNew) => del = 1
                /\ (inNew /\ inOld /\ SameChangeFields(LastWithKey(existing_lessons, k),
                                                      LastWithKey(new_lessons, k)))
                      => ins + upd + del = 0

\* one Compare met a new-only key, a persisted-only key and a key whose two
\* lessons are equal
C5_Witness ==
    /\ pc \in ApplySteps
    /\ to_insert # <<>>
    /\ to_delete # <<>>
    /\ \E k \in KeysOf(new_lessons) \cap KeysOf(existing_lessons) :
          SameChangeFields(LastWithKey(existing_lessons, k), LastWithKey(new_lessons, k))

\* the step is the commit of a pass
IsCommit == pc = "commit" /\ ~IsRollback

Written == SubSeq(db'.changes, Len(db.changes) + 1, Len(db'.changes))
RecordsOf(id, kind) ==
    {i \in 1..Len(Written) :
        Written[i].lesson_id = id /\ Written[i].change_type = kind}
InsertedIds == Ids(db'.lessons) \ Ids(db.lessons)
DeletedIds == Ids(db.lessons) \ Ids(db'.lessons)
UpdatedIds ==
    {id \in Ids(db.lessons) \cap Ids(db'.lessons) :
        \E r \in db.lessons : r.lesson_id = id /\ r \notin db'.lessons}

\* C6: the triple a committed pass returns counts the lessons the commit
\* inserted, updated and deleted; the commit adds one ChangeRecord per such
\* lesson, of kind new, update and delete; and each new record is written
\* right after its insert, with the identifier the insert returned.
C6_CountsAndRecords ==
    [][/\ IsCommit =>
            /\ returned'.added = Cardinality(InsertedIds)
            /\ returned'.updated = Cardinality(UpdatedIds)
            /\ returned'.deleted = Cardinality(DeletedIds)
            /\ SubSeq(db'.changes, 1, Len(db.changes)) = db.changes
            /\ Len(Written) = Cardinality(InsertedIds) + Cardinality(UpdatedIds)
                              + Cardinality(DeletedIds)
            /\ \A id \in InsertedIds : Cardinality(RecordsOf(id, "new")) = 1
            /\ \A id \in UpdatedIds : Cardinality(RecordsOf(id, "update")) = 1
            /\ \A id \in DeletedIds : Cardinality(RecordsOf(id, "delete")) = 1
       /\ (pc = "log_new" /\ ~IsRollback) =>
            /\ Len(tx'.changes) = Len(tx.changes) + 1
            /\ tx'.changes[Len(tx'.changes)].change_type = "new"
            /\ tx'.changes[Len(tx'.changes)].lesson_id = lesson_id
            /\ \E r \in tx.lessons :
                  /\ r.lesson_id = lesson_id
                  /\ LessonKey(r) = LessonKey(to_insert[idx])]_vars

\* a pass that inserted and deleted lessons has committed
C6_Witness ==
    /\ pc \in {"compare", "done"}
    /\ failed_at = None
    /\ returned.added > 0
    /\ returned.deleted > 0
    /\ Len(db.changes) >= returned.added + returned.deleted

\* C7: two Lesson values compare equal exactly when name, teacher, classroom,
\* start time, end time and subgroup all agree, whatever the identifier, the
\* timestamps, the raw text and the other fields are; a value that is not a
\* Lesson is never equal.
C7_ChangeDetectionEquality ==
    eq_result # <<>> =>
        (eq_result[1] <=>
            /\ eq_other # NotALesson
            /\ eq_self.name = eq_other.name
            /\ eq_self.teacher_name = eq_other.teacher_name
            /\ eq_self.cabinet_number = eq_other.cabinet_number
            /\ eq_self.start_time = eq_other.start_time
            /\ eq_self.end_time = eq_other.end_time
            /\ eq_self.subgroup = eq_other.subgroup)

\* lessons that differ in identifier, timestamps and raw text compared equal
C7_Witness ==
    /\ eq_result = <<TRUE>>
    /\ eq_self.lesson_id # eq_other.lesson_id
    /\ eq_self.date_added # eq_other.date_added
    /\ eq_self.last_updated # eq_other.last_updated
    /\ eq_self.raw_text # eq_other.raw_text

\* the tasks that hold a slot of the semaphore: those inside parse_group
InFlight == {i \in Tasks : task[i] \in PipelineSteps}

\* C8: at every moment at most limit group pipelines are in flight.
C8_BoundedConcurrency ==
    batch_pc # "idle" =>
        /\ Cardinality(InFlight) <= limit
        /\ semaphore = limit - Cardinality(InFlight)

\* the limit is below the number of groups, limit pipelines are in flight and
\* another task waits at the semaphore
C8_Witness ==
    /\ batch_pc = "gather"
    /\ limit < NumGroups
    /\ limit >= 2
    /\ Cardinality({i \in Tasks : task[i] \in PipelineSteps}) = limit
    /\ \E i \in Tasks : task[i] = "created"

\* what the pipeline of task i by itself leads to
OwnResult(i) ==
    IF raised[i] # None
    THEN ParseResult(FALSE, group_ids[i], "Parsing failed", 0, 0, 0, "Exception")
    ELSE IF ~group_found[i]
    THEN ParseResult(FALSE, group_ids[i], "Group not found or inactive", 0, 0, 0,
                     "GROUP_NOT_FOUND")
    ELSE ParseResult(TRUE, group_ids[i], "Successfully parsed schedule",
                     calls[i].writes, 0, 0, None)

\* C9: the batch returns, and it returns one result per input group id, in
\* input order; the result of a group is the failure result of its own
\* pipeline if a step of it raised or the group was not found, and the
\* success result of its own pipeline otherwise, whatever happened to the
\* other groups.
C9_BatchIsolation ==
    /\ [](batch_pc = "returned" =>
            /\ Len(results) = NumGroups
            /\ \A i \in Tasks :
                  /\ results[i].group_id = group_ids[i]
                  /\ results[i] = OwnResult(i)
                  /\ (raised[i] # None =>
                        ~results[i].status /\ results[i].errors # None)
                  /\ (raised[i] = None /\ group_found[i] =>
                        results[i].status /\ calls[i].reconcile = 2))
    /\ <>(batch_pc = "returned")

\* the batch returned; one group failed in a step, another was not found, a
\* third succeeded
C9_Witness ==
    /\ batch_pc = "returned"
    /\ \E i, j, k \in Tasks :
          /\ raised[i] # None /\ ~results[i].status
          /\ raised[j] = None /\ ~group_found[j]
          /\ results[k].status

\* C10: a group the lookup does not find gets the failure result that says
\* so, after exactly one lookup and without any fetch, build, reconciliation
\* or storage write.
C10_GroupNotFound ==
    \A i \in DOMAIN task :
        (~group_found[i] /\ raised[i] = None) =>
            /\ calls[i].get_group_info <= 1
            /\ calls[i].fetch = 0
            /\ calls[i].build = 0
            /\ calls[i].reconcile = 0
            /\ calls[i].writes = 0
            /\ task[i] \in {"created", "get_group_info", "done"}
            /\ (task[i] = "done" =>
                  /\ calls[i].get_group_info = 1
                  /\ ~outcome[i].status
                  /\ outcome[i].group_id = group_ids[i]
                  /\ outcome[i].details = "Group not found or inactive"
                  /\ outcome[i].errors = "GROUP_NOT_FOUND")

\* a group was not found and has its result, while a sibling succeeded
C10_Witness ==
    /\ batch_pc = "returned"
    /\ \E i, j \in Tasks :
          /\ ~group_found[i] /\ raised[i] = None
          /\ results[i].errors = "GROUP_NOT_FOUND"
          /\ results[j].status

\* ---------------------------------------------------------------- builder keys
\* no two positions of a lesson list hold lessons with the same
\* (day_of_week, lesson_number, subgroup)
KeysUnique(lessons) ==
    \A i, j \in 1..Len(lessons) :
        i # j => LessonKey(lessons[i]) # LessonKey(lessons[j])

\* C11: among the lessons the builder returns for one (group, week type) no
\* two share (day_of_week, lesson_number, subgroup), whatever the page,
\* including a page with the same day label in two rows of one week type.
C11_BuilderKeysUnique == KeysUnique(built.even) /\ KeysUnique(built.odd)

\* --------------------------------------------------------------- week types
\* the Monday-to-Sunday week of date d holds September 1
InSeptemberFirstWeek(d) ==
    \E y \in Years :
        /\ d - weekday(d) <= Ordinal(y, 9, 1)
        /\ Ordinal(y, 9, 1) <= d - weekday(d) + 6

\* C12: two Mondays seven days apart have different week types, in any year
\* and across the turn of the academic year around September 1.
C12_ParityAlternates ==
    (cal_week_type # <<>> /\ weekday(cal_date) = 0) =>
        cal_week_type # cal_next_week_type

\* C13: every date of the Monday-to-Sunday week that holds September 1 has
\* week type odd, the days of that week that fall in August included.
C13_FirstWeekOdd ==
    (cal_week_type # <<>> /\ InSeptemberFirstWeek(cal_date)) =>
        cal_week_type = <<"odd">>

\* the canonical type of a type prefix
TypeOfPrefix(prefix) ==
    LET k == CHOOSE k \in 1..Len(LESSON_TYPE_PREFIXES) : LESSON_TYPE_PREFIXES[k][1] = prefix
    IN  LESSON_TYPE_PREFIXES[k][2]

\* C14: for a cell made of a type prefix, a name, one 'SURNAME I.I.' and
\* 'a.' + code, parse_lesson_info returns the canonical type, the name, that
\* one teacher, one classroom equal to the code without the 'a.' marker, and
\* no subgroup
C14_SimpleCell ==
    \A k \in 1..Len(LESSON_TYPE_PREFIXES), n \in CellNames, t \in CellTeachers, c \in CellCodes :
        (/\ td_text = SimpleCell(LESSON_TYPE_PREFIXES[k][1], n, t, c)
         /\ td_info # <<>>)
        => td_info[1] = LessonInfo(n, LESSON_TYPE_PREFIXES[k][2], <<t>>, <<c>>, NoneInt)

\* the text ends with the code
EndsWith(s, code) == Len(s) >= Len(code) /\ From(s, Len(s) - Len(code) + 1) = code

\* C15: for a cell with a second 'SURNAME I.I. - a.code' pair after the
\* primary clause, parse_lesson_info returns both teachers and both
\* classrooms, the primary ones first, and the name holds neither pair
C15_SecondaryPairs ==
    \A n \in CellNames, t \in CellTeachers, c \in CellCodes, g \in Gaps, k \in Links,
       t2 \in SecondTeachers, c2 \in SecondCodes :
        (/\ td_text = PairCell("pr.", n, t, c, g, t2, k, c2)
         /\ td_info # <<>>)
        => /\ td_info[1].teachers = <<t, t2>>
           /\ Len(td_info[1].cabinets) = 2
           /\ EndsWith(td_info[1].cabinets[1], c)
           /\ EndsWith(td_info[1].cabinets[2], c2)
           /\ td_info[1].name = n

C15_Witness ==
    /\ td_text = "pr.Inostrannyj azyk MIHEEV B.V. a.8402   BAZAROVA M.D. - a.718a"
    /\ td_info # <<>>
    /\ td_info[1].teachers = <<"MIHEEV B.V.", "BAZAROVA M.D.">>

\* C16: for the empty cell, a cell of whitespace and the filler "_",
\* parse_lesson_info returns a LessonInfo with an empty name, no teachers
\* and no classrooms, and the builder creates no lesson for the cell
C16_Placeholders ==
    td_text \in PlaceholderCells
    => /\ td_info # <<>>
          => /\ td_info[1].name = ""
             /\ td_info[1].teachers = <<>>
             /\ td_info[1].cabinets = <<>>
       /\ td_lessons # <<>>
          => /\ td_lessons[1].even = <<>>
             /\ td_lessons[1].odd = <<>>

C16_Witness ==
    /\ td_text = "_"
    /\ td_info = <<LessonInfo("", None, <<>>, <<>>, NoneInt)>>
    /\ td_lessons = <<[even |-> <<>>, odd |-> <<>>]>>

\* parse_group has returned a failure result for the run
RunFailed == pc = "done" /\ result.errors # None

\* C18: when parse_group returns a failure result, the run has committed
\* no lesson insert, update or delete and no ChangeRecord in either parity:
\* the store is as the run found it
C18_FailedGroupLeavesNoTrace == RunFailed => db = prev.store

\* C17: the shared storage handle is never handed out unconnected: every
\* task's first storage call (get_group_info) finds an established
\* connection pool
C17_HandleConnected ==
    \A i \in Tasks : caller[i] = "get_group_info" => pool # None

\* the rows of one group and parity carry pairwise different keys
StoreKeysUnique(store) ==
    \A r1, r2 \in store.lessons :
        (/\ r1.group_id = r2.group_id
         /\ r1.week_type = r2.week_type
         /\ LessonKey(r1) = LessonKey(r2)) => r1 = r2

\* C19: starting from a store in which no two lessons of the same group and
\* parity share (day_of_week, lesson_number, subgroup), no interleaving of
\* the passes of two pipelines for the same group id brings two such rows
\* into the store
C19_PersistedKeysUnique == StoreKeysUnique(shared)

\* the persisted rows match the new set: the same keys, and under each key
\* a row that equals the lesson the new set holds for it
Converged(rows, new) ==
    /\ {LessonKey(r) : r \in rows} = {LessonKey(new[i]) : i \in 1..Len(new)}
    /\ \A r \in rows :
          HasKey(new, LessonKey(r)) => Lesson__eq__(r, MapGet(new, LessonKey(r)))

\* the pass of pipeline p commits in this step, and nothing was committed
\* between its read and its commit
CommitsAlone(p) ==
    /\ pipe[p].pc = "apply"
    /\ pipe'[p].pc \in {"read", "done"}
    /\ pipe[p].seen = shared

\* C20: after a pass for (group, parity) commits, the persisted lessons of
\* that group and parity have the keys of the new set and under every key a
\* row equal to the new lesson, whatever the persisted set was, two rows
\* with one key included
C20_Convergence ==
    [][\A p \in Pipelines :
          CommitsAlone(p) =>
              Converged(MatchingRows(shared', GroupId, pipe[p].wt),
                        pipe[p].new[pipe[p].wt])]_vars

\* ------------------------------------------------------------------
\* C21  Within one group's pipeline the two parities are reconciled in
\*      sequence on one connection: no storage event of the odd pass comes
\*      before the commit of the even pass's transaction, every event of
\*      both passes is on the connection the pipeline acquired, each pass's
\*      writes are inside a transaction of that pass alone, and when the
\*      pipeline has ended, with success or with failure, it holds no
\*      connection.

WriteCalls == {"insert_lesson", "update_lesson", "delete_lesson",
               "log_schedule_change"}

OddAfterEvenCommit ==
    \A i \in DOMAIN journal :
        journal[i].week = "odd" =>
            \E j \in 1..(i - 1) :
                journal[j].op = "commit" /\ journal[j].week = "even"

OneConnection ==
    \A i \in DOMAIN journal :
        /\ journal[i].conn = journal[1].conn
        /\ journal[i].conn \in Connections
        /\ conn # 0 => journal[i].conn = conn

OwnTransactions ==
    /\ \A i \in DOMAIN journal :
          journal[i].op \in WriteCalls =>
              /\ journal[i].tx # 0
              /\ \E b \in 1..(i - 1) :
                    /\ journal[b] = StorageEvent("begin", journal[i].week,
                                                 journal[i].conn, journal[i].tx)
                    /\ \A k \in b..i : journal[k].op \notin {"commit", "rollback"}
    /\ \A i, j \in DOMAIN journal :
          journal[i].tx # 0 /\ journal[i].tx = journal[j].tx =>
              journal[i].week = journal[j].week

ReleasedAtEnd == sess_pc = "done" => conn = 0 /\ open_tx = 0

\* C21: the storage calls of a session run on one borrowed connection, the
\* odd pass after the even pass has committed, each pass in its own
\* transaction, and the connection goes back to the pool at the end
C21_SequentialOnOneConnection ==
    /\ OddAfterEvenCommit
    /\ OneConnection
    /\ OwnTransactions
    /\ ReleasedAtEnd

\* the odd pass failed in the middle of its writes after the even pass had
\* committed its own, and the pipeline has ended
C21_Witness ==
    /\ sess_pc = "done"
    /\ sess_status = "failed"
    /\ conn = 0
    /\ \E i, j \in DOMAIN journal :
          /\ journal[i].op \in WriteCalls /\ journal[i].week = "even"
          /\ journal[j].op \in WriteCalls /\ journal[j].week = "odd"
    /\ journal[Len(journal)].op = "rollback"

\* ------------------------------------------------------------------
\* C22  Frame of a pass: whatever a pass for the group and a week type has
\*      written, in its transaction or committed, the lessons of every
\*      other group and of the group's other week type are those the store
\*      held when the pass began, and the change records the store held
\*      then are still its first records, unchanged.

OutsideOf(wt, store) ==
    {r \in store.lessons : ~(r.group_id = GroupId /\ r.week_type = wt)}

KeepsRecords(before, after) ==
    /\ Len(after.changes) >= Len(before.changes)
    /\ SubSeq(after.changes, 1, Len(before.changes)) = before.changes

InPass == pc \in StorageSteps \cup {"update_lesson"}

\* C22: a pass leaves the lessons of other groups and of the other week type
\* and the change records already stored as they were
C22_PassFrame ==
    [][InPass =>
          /\ OutsideOf(week_type, db') = OutsideOf(week_type, db)
          /\ OutsideOf(week_type, tx') = OutsideOf(week_type, tx)
          /\ KeepsRecords(db, db')
          /\ KeepsRecords(db, tx')]_vars

\* the even pass has committed inserts and deletes in a store that holds the
\* other group's lessons of both week types and the group's odd lessons
C22_Witness ==
    /\ pc = "compare" /\ week_type = "odd"
    /\ returned.deleted > 0
    /\ returned.added > 0
    /\ \E r \in db.lessons : r.group_id = OtherGroup /\ r.week_type = "even"
    /\ \E r \in db.lessons : r.group_id = OtherGroup /\ r.week_type = "odd"
    /\ \E r \in db.lessons : r.group_id = GroupId /\ r.week_type = "odd"

\* ------------------------------------------------------------------
\* C23  The semaphore is released on every way out of a group's pipeline:
\*      the step that ends a pipeline, with the success result, with the
\*      failure result of a group that was not found or with the failure
\*      result made from a raised exception, gives one slot back; so, when
\*      the event loop keeps running the tasks that can run and every call
\*      returns or raises, every task of the batch gets a slot and produces
\*      its result, the batch returns, and all limit slots are free then.

LeavesPipeline(i) == task[i] \in PipelineSteps /\ task'[i] = "done"

\* C23: every way out of a group's pipeline gives the slot back; every task
\* ends, the batch returns, and all slots are free then
C23_GateReleased ==
    /\ [][\A i \in Tasks : LeavesPipeline(i) => semaphore' = semaphore + 1]_vars
    /\ \A i \in Tasks : <>(task[i] \in PipelineSteps)
    /\ \A i \in Tasks : <>(task[i] = "done" /\ outcome[i] # NoResult)
    /\ <>(batch_pc = "returned")
    /\ [](batch_pc = "returned" => semaphore = limit)

\* one slot for three groups: the batch returned with every slot free after
\* one pipeline ended by a raised exception, one by the not-found result
\* and one by the success result
C23_Witness ==
    /\ batch_pc = "returned"
    /\ limit = 1 /\ semaphore = limit
    /\ \E i, j, k \in Tasks :
          /\ raised[i] # None
          /\ raised[j] = None /\ ~group_found[j]
          /\ raised[k] = None /\ group_found[k] /\ outcome[k].status

\* ------------------------------------------------------------------
\* C24  Fetch retry: the fetch is attempted at most max_retries times; an
\*      attempt that succeeds is the last event of the fetch and its text
\*      is what the fetch returns; exactly one wait stands between two
\*      consecutive attempts and no wait follows the last attempt; and when
\*      the fetch raises, max_retries attempts were made, all of them
\*      failed, the error raised is that of the last attempt, and the group
\*      ends with a failure result carrying it and with no storage write.

AttemptsOf(log) == {i \in DOMAIN log : log[i].kind = "attempt"}

FetchOver == fetch_pc \in {"fetched", "exhausted", "done"}

\* C24: at most max_retries attempts, one wait between two attempts, none
\* after the last; success ends the fetch, exhaustion raises the last error
\* and the group fails before any storage write
C24_FetchRetry ==
    /\ Cardinality(AttemptsOf(fetch_log)) <= max_retries
    /\ \A i \in AttemptsOf(fetch_log) :
          fetch_log[i].ok =>
              i = Len(fetch_log) /\ fetch_out = <<"returned", fetch_log[i].what>>
    /\ fetch_log # <<>> => fetch_log[1].kind = "attempt"
    /\ \A i \in 1..(Len(fetch_log) - 1) : fetch_log[i].kind # fetch_log[i + 1].kind
    /\ FetchOver => fetch_log[Len(fetch_log)].kind = "attempt"
    /\ (fetch_out # <<>> /\ fetch_out[1] = "raised") =>
          /\ Cardinality(AttemptsOf(fetch_log)) = max_retries
          /\ \A i \in AttemptsOf(fetch_log) : ~fetch_log[i].ok
          /\ fetch_out[2] = fetch_log[Len(fetch_log)].what
          /\ ~group_result.status
          /\ group_result.errors = fetch_log[Len(fetch_log)].what
          /\ storage_writes = 0

\* three attempts allowed, three made with two waits between them, all
\* failed, the last with another error than the first, and the group ended
C24_Witness ==
    /\ fetch_pc = "done"
    /\ max_retries = MaxRetriesBound
    /\ Len(fetch_log) = 2 * MaxRetriesBound - 1
    /\ fetch_out = <<"raised", "TimeoutError">>
    /\ fetch_log[1].what = "ClientConnectorError"
    /\ ~group_result.status

\* ------------------------------------------------------------------
\* C25  Stored dates follow the run: when parse_group has returned the
\*      success result, every persisted lesson of the group whose slot the
\*      page of this run fills carries the calendar date this run computed
\*      for the slot, the lessons the run found unchanged included.

C25_StoredDatesFollowRun ==
    (pc = "done" /\ result.status) =>
        \A wt \in {"even", "odd"} :
            \A r \in MatchingRows(db, GroupId, wt) :
                \A i \in DOMAIN built[wt] :
                    LessonKey(built[wt][i]) = LessonKey(r) =>
                        r.lesson_date = built[wt][i].lesson_date

\* ------------------------------------------------------------------
\* C26  Unbalanced markup: when the input ends inside a row or inside a
\*      cell, the row accumulated so far is in the extractor's output like
\*      the rows that were closed, and the output has no row the markup did
\*      not contain: the output holds one row for every tr with cells of
\*      the table but the first two.

TrsWithCells(m) == {i \in DOMAIN m.trs : m.trs[i] # <<>>}

\* C26: a row still open at the end of the input is in the output like the
\* closed rows
C26_UnbalancedFlushed ==
    (extract_pc = "done" /\ markup.ends # "closed") =>
        Len(extracted[1]) =
            IF Cardinality(TrsWithCells(markup)) <= 2 THEN 0
            ELSE Cardinality(TrsWithCells(markup)) - 2

\* ------------------------------------------------------------------
\* C27  Cell text: in a page whose tags are all closed, every td of a row
\*      yields exactly one recorded cell, and the text of the cell is all
\*      the text between <td> and </td>, trimmed, whatever font elements
\*      the td holds and wherever the text stands relative to them.

HasCells(tr) == tr # <<>>

TdText(td) == strip(Concat([i \in DOMAIN td |-> td[i].text]))

TextsOfTr(tr) == [j \in DOMAIN tr |-> TdText(tr[j])]

TextsOfTrs(trs) == [k \in DOMAIN trs |-> TextsOfTr(trs[k])]

\* C27: every td yields one cell whose text is all the text of the td,
\* trimmed
C27_CellText ==
    (extract_pc = "done" /\ markup.ends = "closed") =>
        extractor.rows = TextsOfTrs(SelectSeq(markup.trs, HasCells))

\* ------------------------------------------------------------------
\* C28  Cells come only from cells: in a page whose tags are all closed,
\*      the recorded rows are the tr elements of the table that hold a td,
\*      and each recorded row has one cell for each td of its tr; a font
\*      element of whatever colour, inside the table or before or after
\*      it, adds no cell and no row.

\* C28: rows and cells come from tr and td only, a font element adds none
C28_CellsFromTdOnly ==
    (extract_pc = "done" /\ markup.ends = "closed") =>
        /\ Len(extractor.rows) = Len(SelectSeq(markup.trs, HasCells))
        /\ \A k \in DOMAIN extractor.rows :
              Len(extractor.rows[k]) = Len(SelectSeq(markup.trs, HasCells)[k])

\* ------------------------------------------------------------------
\* C29  Header rows and alignment: what get_schedule_data returns is the
\*      recorded rows from the third on, in document order, and nothing
\*      when two rows or fewer were recorded; every recorded row has a
\*      cell; every row comes with one flag, and the flag of a row is the
\*      OR of the has_blue values recorded with the cells of that row.

\* C29: the output is the recorded rows from the third on, each with a cell
\* and with the OR of its cells' flags
C29_HeaderRowsAndAlignment ==
    extract_pc = "done" =>
        /\ Len(extracted[1]) = IF Len(extractor.rows) <= 2 THEN 0
                               ELSE Len(extractor.rows) - 2
        /\ Len(extractor.row_metadata) = Len(extractor.rows)
        /\ \A k \in DOMAIN extracted[1] :
              /\ extracted[1][k].row = extractor.rows[k + 2]
              /\ extracted[1][k].has_blue = AnyFlag(extractor.cell_flags[k + 2])
        /\ \A k \in DOMAIN extractor.rows : extractor.rows[k] # <<>>

\* -------------------------------------------------------- get_monday_of_week
\* one call of get_monday_of_week for each date and each week_type argument
MondayDates == Ordinal(2019, 1, 7)..Ordinal(2026, 12, 6)

InitMonday ==
    /\ RecIdle /\ BatchIdle /\ EqIdle /\ CalIdle /\ CellIdle /\ HandleIdle
    /\ RaceIdle /\ SessIdle /\ FetchIdle /\ ExtractIdle /\ BuildIdle
    /\ mon_date \in MondayDates
    /\ mon_week_type \in {None, "even", "odd"}
    /\ mon_result = <<>>

MondayOfWeek ==
    /\ mon_result = <<>>
    /\ mon_result' = << get_monday_of_week(mon_date, mon_week_type) >>
    /\ UNCHANGED <<mon_date, mon_week_type, notMonday>>

NextMonday == MondayOfWeek

SpecMonday == InitMonday /\ [][NextMonday]_vars

\* ------------------------------------------------------------------
\* C30  Highlighted tables: when a row of the page carries the highlight
\*      flag, every lesson built from a highlighted row has the week type
\*      of the run date and the date of its day in the week of the run
\*      date, every lesson built from a row without the flag has the other
\*      week type and the date of its day in the week after; the lessons
\*      returned are those of the rows, each in the list of its week type.

HighlightPresent(entries) == \E i \in DOMAIN entries : entries[i].has_blue

Opposite(wt) == IF wt = "even" THEN "odd" ELSE "even"

ElementsOf(seq) == {seq[k] : k \in DOMAIN seq}

RowsAsExpected(per_row, check(_, _)) ==
    \A i \in DOMAIN per_row : \A k \in DOMAIN per_row[i] : check(i, per_row[i][k])

ListsByWeekType(out, per_row) ==
    /\ ElementsOf(out.even) \cup ElementsOf(out.odd)
           = UNION {ElementsOf(per_row[i]) : i \in DOMAIN per_row}
    /\ \A l \in ElementsOf(out.even) : l.week_type = "even"
    /\ \A l \in ElementsOf(out.odd) : l.week_type = "odd"

HighlightRule(i, l) ==
    IF sheet[i].has_blue
    THEN /\ l.week_type = get_week_type_for_date(run_date)
         /\ l.lesson_date = (run_date - weekday(run_date)) + l.day_of_week - 1
    ELSE /\ l.week_type = Opposite(get_week_type_for_date(run_date))
         /\ l.lesson_date = (run_date - weekday(run_date)) + 7 + l.day_of_week - 1

\* C30: on a page with a highlighted row, highlighted rows give lessons of the
\* run date's week type dated in its week, the other rows lessons of the
\* other week type dated in the week after
C30_HighlightedTables ==
    (lessons_out # <<>> /\ HighlightPresent(sheet)) =>
        LET Holds(per_row) ==
                /\ RowsAsExpected(per_row, HighlightRule)
                /\ ListsByWeekType(lessons_out[1], per_row)
        IN  Holds(RowsBuilt(sheet, run_date))

\* a page with highlighted and plain rows built on a Sunday: both lists
\* hold lessons
C30_Witness ==
    /\ lessons_out # <<>>
    /\ sheet = PageHighlightDays
    /\ weekday(run_date) = 6
    /\ lessons_out[1].even # <<>>
    /\ lessons_out[1].odd # <<>>

\* ------------------------------------------------------------------
\* C31  Tables without highlighting: when no row of the page carries the
\*      highlight flag, every lesson has the week type its row's flag
\*      stands for (flag set: odd, flag not set: even) and the date of its
\*      day in the week of get_monday_of_week(run date, that week type);
\*      the lessons returned are those of the rows, each in the list of
\*      its week type.

FlagRule(i, l) ==
    LET FlagWeekType == IF sheet[i].has_blue THEN "odd" ELSE "even"
        DateIn(wt) == get_monday_of_week(run_date, wt) + l.day_of_week - 1
    IN  /\ l.week_type = FlagWeekType
        /\ l.lesson_date = DateIn(l.week_type)

NoHighlightRun == pc # "idle" /\ ~HighlightPresent(html)

OddPassQueued == week_type = "odd" /\ pc \in {"log_delete", "delete_lesson", "commit"}

AllInEven(per_row) ==
    /\ built.odd = <<>>
    /\ ElementsOf(built.even) = UNION {ElementsOf(per_row[i]) : i \in DOMAIN per_row}

\* the lessons of the rows of each page on each date
rows_built ==
    { [html |-> page, today |-> d, rows |-> RowsBuilt(page, d)] :
         page \in Pages, d \in TodayDates }

\* C32: a page without a highlighted row gives an empty odd list, all its
\* lessons in the even list, and an odd pass that queues every stored odd
\* lesson of the group for deletion
C32_NoHighlightEmptiesOdd ==
    NoHighlightRun =>
        /\ \A b \in rows_built : (b.html = html /\ b.today = today) => AllInEven(b.rows)
        /\ OddPassQueued => ElementsOf(to_delete) = MatchingRows(pass_start, GroupId, "odd")

\* the odd pass of a run on a page without highlighting, the store holding
\* odd lessons of an earlier run: all of them are queued for deletion
C32_Witness ==
    /\ NoHighlightRun
    /\ OddPassQueued
    /\ built.even # <<>>
    /\ MatchingRows(pass_start, GroupId, "odd") # {}
    /\ Len(to_delete) = Cardinality(MatchingRows(pass_start, GroupId, "odd"))

\* ------------------------------------------------------------------
\* C33  Lesson invariants: every lesson parse_schedule_html returns has
\*      day_of_week in 1..7, lesson_number in 1..6, a start time before
\*      its end time, and the start and end times of its lesson number in
\*      LESSON_TIMES; a row yields at most one lesson for each of its
\*      first six cells, a cell in a seventh column yields none.

Minutes(t) == t[1] * 60 + t[2]

LessonInRange(l) ==
    /\ l.day_of_week \in 1..7
    /\ l.lesson_number \in 1..6
    /\ Minutes(l.start_time) < Minutes(l.end_time)
    /\ <<l.start_time, l.end_time>> = LESSON_TIMES(l.lesson_number)

AtMostFirstSix(entries, per_row) ==
    \A i \in DOMAIN per_row :
        /\ Len(per_row[i]) <= Min(6, Len(entries[i].row) - 1)
        /\ \A k \in DOMAIN per_row[i] : \A n \in DOMAIN per_row[i] :
              (k # n) => per_row[i][k].lesson_number # per_row[i][n].lesson_number
        /\ \A k \in DOMAIN per_row[i] :
              per_row[i][k].raw_text = entries[i].row[per_row[i][k].lesson_number + 1]

\* C33: day 1..7, lesson number 1..6, start before end, times of the bell
\* schedule; no lesson from a seventh column
C33_LessonInvariants ==
    lessons_out # <<>> =>
        /\ \A l \in ElementsOf(lessons_out[1].even) \cup ElementsOf(lessons_out[1].odd) :
              LessonInRange(l)
        /\ AtMostFirstSix(sheet, RowsBuilt(sheet, run_date))

\* a row with a lesson in its sixth and a filled cell in its seventh column
C33_Witness ==
    /\ lessons_out # <<>>
    /\ sheet = PageSeventhColumn
    /\ Len(sheet[1].row) = 8
    /\ sheet[1].row[8] = T_hist2
    /\ \E k \in DOMAIN lessons_out[1].even :
          /\ lessons_out[1].even[k].lesson_number = 6
          /\ lessons_out[1].even[k].day_of_week = 4

\* ------------------------------------------------------------------
\* C34  Date and week type agree: for every lesson parse_schedule_html
\*      returns, on any run date, the weekday of lesson_date is the
\*      lesson's day_of_week and get_week_type_for_date(lesson_date) is the
\*      lesson's week_type.

DateAgrees(l) ==
    /\ weekday(l.lesson_date) + 1 = l.day_of_week
    /\ get_week_type_for_date(l.lesson_date) = l.week_type

\* C34: the weekday and the week type of lesson_date are the lesson's
\* day_of_week and week_type
C34_DateAndWeekTypeAgree ==
    lessons_out # <<>> =>
        \A l \in ElementsOf(lessons_out[1].even) \cup ElementsOf(lessons_out[1].odd) :
            DateAgrees(l)

\* ------------------------------------------------------------------
\* C35  The week type belongs to the week: get_week_type_for_date returns
\*      the same value for the seven dates of the Monday-to-Sunday week of
\*      any date, the week that holds September 1 included.

WeekOf(d) == (d - weekday(d))..(d - weekday(d) + 6)

\* C35: the seven dates of a week have one week type
C35_WeekTypeOfTheWeek ==
    (cal_week_type # <<>> /\ WeekOf(cal_date) \subseteq CalDates) =>
        \A d \in WeekOf(cal_date) : get_week_type_for_date(d) = cal_week_type[1]

\* ------------------------------------------------------------------
\* C36  get_monday_of_week with a week type: for every date and each of the
\*      two week types the result is a Monday, it is the Monday of the
\*      date's week or the Monday 7 days after it, and
\*      get_week_type_for_date of the result is the week type asked for.

\* C36: get_monday_of_week(date, week type) is a Monday, that of the date's
\* week or the next, of the week type asked for
C36_MondayOfRequestedType ==
    (mon_result # <<>> /\ mon_week_type # None) =>
        /\ weekday(mon_result[1]) = 0
        /\ mon_result[1] - (mon_date - weekday(mon_date)) \in {0, 7}
        /\ get_week_type_for_date(mon_result[1]) = mon_week_type

\* ------------------------------------------------------------------
\* C37  Subgroup range: the subgroup parse_lesson_info returns is absent, 1
\*      or 2 for every cell; for a cell with one subgroup marker the
\*      subgroup is the digit of the marker when that digit is 1 or 2 and
\*      absent for any other digit, and with a digit 1 or 2 the name is the
\*      name of the cell, the marker and the dash before it removed.

SubgroupOfDigit(digit) ==
    CASE digit = "1" -> 1
      [] digit = "2" -> 2
      [] OTHER -> NoneInt

AfterTypeAndSubgroup(raw_text) ==
    extract_subgroup(extract_lesson_type(normalize_text(raw_text))[2])[2]

\* the name after step 4
CleanedName(raw_text) ==
    clean_discipline_name(extract_teachers_and_cabinets(AfterTypeAndSubgroup(raw_text))[3])

FallsBack ==
    /\ td_info # <<>>
    /\ strip(td_text) \notin {"_", ""}
    /\ td_info[1].teachers # <<>> \/ td_info[1].cabinets # <<>>
    /\ CleanedName(td_text) = ""

LabelOf(text) ==
    IF text = "Fiziceskaa kulqtura i sport FKS a.9-Sport1" THEN "FKS" ELSE "FKS 21"

\* C39: a trailing label in capitals, with a number or without, is returned
\* as the teacher and is not part of the name
C39_PseudoTeacher ==
    (td_info # <<>> /\ td_text \in LabelCells) =>
        /\ td_info[1].teachers = <<LabelOf(td_text)>>
        /\ td_info[1].name = "Fiziceskaa kulqtura i sport"

\* ------------------------------------------------------------------
\* C40  Skips are local: a row whose day label is no known day, a cell in
\*      a column after the sixth and a cell whose parsed name is empty
\*      yield no lesson; every other filled cell of the page yields one
\*      lesson, with the day of its row and the number of its column.

DayOfLabel(label) == DAY_MAPPING(SubSeq(lower(normalize_text(label)), 1, 3))

\* the columns of row i whose cell must yield a lesson
DueColumns(entries, i) ==
    IF Len(entries[i].row) < 2 \/ DayOfLabel(entries[i].row[1]) = NoneInt THEN {}
    ELSE {k \in 1..Min(6, Len(entries[i].row) - 1) :
            /\ strip(entries[i].row[k + 1]) \notin {"_", ""}
            /\ parse_lesson_info(entries[i].row[k + 1]).name # ""}

OneLessonPerDueCell(entries, per_row) ==
    \A i \in DOMAIN entries :
        /\ {per_row[i][n].lesson_number : n \in DOMAIN per_row[i]} = DueColumns(entries, i)
        /\ Len(per_row[i]) = Cardinality(DueColumns(entries, i))
        /\ \A n \in DOMAIN per_row[i] :
              /\ per_row[i][n].day_of_week = DayOfLabel(entries[i].row[1])
              /\ per_row[i][n].raw_text = entries[i].row[per_row[i][n].lesson_number + 1]

SumOfLens(per_row) ==
    LET RECURSIVE Upto(_)
        Upto(i) == IF i = 0 THEN 0 ELSE Len(per_row[i]) + Upto(i - 1)
    IN  Upto(Len(per_row))

\* C40: rows of unknown days, cells after the sixth column and cells without
\* a name yield nothing, every other filled cell yields its lesson
C40_SkipsAreLocal ==
    lessons_out # <<>> =>
        LET Holds(per_row) ==
                /\ OneLessonPerDueCell(sheet, per_row)
                /\ ListsByWeekType(lessons_out[1], per_row)
                /\ Len(lessons_out[1].even) + Len(lessons_out[1].odd) = SumOfLens(per_row)
        IN  Holds(RowsBuilt(sheet, run_date))

\* a page with a row of an unknown day, a cell without a name and a cell in
\* a seventh column: the lessons after each of them are there
C40_Witness ==
    /\ lessons_out # <<>>
    /\ sheet = PageNoise
    /\ DayOfLabel(sheet[2].row[1]) = NoneInt
    /\ sheet[3].row[2] = T_dash
    /\ Len(sheet[3].row) = 8
    /\ Len(lessons_out[1].even) = 2
    /\ lessons_out[1].even[2].day_of_week = 2
    /\ lessons_out[1].even[2].lesson_number = 3

====
